---- MODULE Spec2Model ----
(***************************************************************************)
(* Verification model of the event-import toolkit:                         *)
(*   master/raw_csv_to_sql.py      (identity matching, import, mailing     *)
(*                                  list refresh)                          *)
(*   sync_subscribers_to_mailing.py (Subscribers -> AllMailing)            *)
(*                                                                         *)
(* Text values (names, e-mails, phones, tracking links) are sequences of   *)
(* atoms.  A letter, digit or punctuation mark is a one-character atom; a  *)
(* mail domain such as "@mit.edu" is kept as one atom because the code     *)
(* only ever tests it as a whole (substring tests for "@mit.edu", ".edu"). *)
(* NA is pandas' missing value / SQL NULL.                                 *)
(***************************************************************************)
EXTENDS Integers, Sequences, FiniteSets, Bags, TLC

\* pandas NA / Python None / SQL NULL, as a text value
NA == <<"<NA>">>

(***************************************************************************)
(* Characters and the str methods the code uses                            *)
(***************************************************************************)
LowerLetters == <<"a", "b", "c", "e", "j", "l", "o", "s", "x", "y">>
UpperLetters == <<"A", "B", "C", "E", "J", "L", "O", "S", "X", "Y">>

LetterIdx == 1..Len(LowerLetters)

IsLower(c) == \E i \in LetterIdx : LowerLetters[i] = c
IsUpper(c) == \E i \in LetterIdx : UpperLetters[i] = c
\* str.isalpha() on one character
IsAlpha(c) == IsLower(c) \/ IsUpper(c)
\* str.isspace() on one character
IsSpace(c) == c = " "

\* Mail-domain and school-name atoms: spelling with capitals -> lower-case
\* spelling
UpperDomains == <<"@X.COM", "@MIT.EDU", "Harvard", "MIT", "BU">>
LowerDomains == <<"@x.com", "@mit.edu", "harvard", "mit", "bu">>

LowerChar(c) ==
    IF IsUpper(c)
    THEN LowerLetters[CHOOSE i \in LetterIdx : UpperLetters[i] = c]
    ELSE IF \E i \in 1..Len(UpperDomains) : UpperDomains[i] = c
    THEN LowerDomains[CHOOSE i \in 1..Len(UpperDomains) : UpperDomains[i] = c]
    ELSE c

UpperChar(c) ==
    IF IsLower(c)
    THEN UpperLetters[CHOOSE i \in LetterIdx : LowerLetters[i] = c]
    ELSE c

\* str.lower()
Lower(s) == [i \in 1..Len(s) |-> LowerChar(s[i])]

\* str.strip(): drop leading and trailing whitespace
RECURSIVE LStrip(_)
LStrip(s) == IF s # <<>> /\ IsSpace(Head(s)) THEN LStrip(Tail(s)) ELSE s
RECURSIVE RStrip(_)
RStrip(s) ==
    IF s # <<>> /\ IsSpace(s[Len(s)]) THEN RStrip(SubSeq(s, 1, Len(s) - 1)) ELSE s
Strip(s) == RStrip(LStrip(s))

\* str.title(): a letter that follows a non-letter is upper-cased, every
\* other letter lower-cased
Title(s) ==
    [i \in 1..Len(s) |->
        IF i = 1 \/ ~IsAlpha(s[i - 1]) THEN UpperChar(s[i]) ELSE LowerChar(s[i])]

\* Python's  sub in s
Contains(sub, s) ==
    \E i \in 0..(Len(s) - Len(sub)) : SubSeq(s, i + 1, i + Len(sub)) = sub

\* str.startswith
StartsWith(s, p) == Len(p) <= Len(s) /\ SubSeq(s, 1, Len(p)) = p

\* str.replace(old, new) for one-character old and new
ReplaceChar(s, old, new) == [i \in 1..Len(s) |-> IF s[i] = old THEN new ELSE s[i]]

(***************************************************************************)
(* fuzzy_ratio: difflib.SequenceMatcher(None, a, b).ratio()                *)
(***************************************************************************)
\* All common blocks <<i, j, k>>: a[i..i+k-1] = b[j..j+k-1], k >= 1
CommonBlocks(a, b) ==
    {blk \in (1..Len(a)) \X (1..Len(b)) \X (1..Len(a)) :
        /\ blk[1] + blk[3] - 1 <= Len(a)
        /\ blk[2] + blk[3] - 1 <= Len(b)
        /\ SubSeq(a, blk[1], blk[1] + blk[3] - 1) = SubSeq(b, blk[2], blk[2] + blk[3] - 1)}

\* find_longest_match: the longest block; of those the one starting earliest
\* in a; of those the one starting earliest in b
LongestMatch(a, b) ==
    CHOOSE blk \in CommonBlocks(a, b) :
        \A o \in CommonBlocks(a, b) :
            \/ o[3] < blk[3]
            \/ o[3] = blk[3] /\ o[1] > blk[1]
            \/ o[3] = blk[3] /\ o[1] = blk[1] /\ o[2] >= blk[2]

\* get_matching_blocks: total size of the blocks found by recursing to the
\* left and to the right of the longest match
RECURSIVE MatchCount(_, _)
MatchCount(a, b) ==
    IF CommonBlocks(a, b) = {} THEN 0
    ELSE LET blk == LongestMatch(a, b)
             i == blk[1]
             j == blk[2]
             k == blk[3]
         IN  k + MatchCount(SubSeq(a, 1, i - 1), SubSeq(b, 1, j - 1))
               + MatchCount(SubSeq(a, i + k, Len(a)), SubSeq(b, j + k, Len(b)))

\* fuzzy_threshold=0.80, in percent
FuzzyThresholdPct == 80

\* fuzzy_ratio(a, b) >= pct/100, where ratio = 2.0*matches/(len(a)+len(b))
\* and 1.0 when both are empty
RatioAtLeast(a, b, pct) ==
    IF Len(a) + Len(b) = 0 THEN pct <= 100
    ELSE 200 * MatchCount(a, b) >= pct * (Len(a) + Len(b))

\* fuzzy_ratio(a, b) as the fraction <<numerator, denominator>>
Ratio(a, b) ==
    IF Len(a) + Len(b) = 0 THEN <<1, 1>> ELSE <<2 * MatchCount(a, b), Len(a) + Len(b)>>

\* r >= q and r > q for two such fractions
FracGE(r, q) == r[1] * q[2] >= q[1] * r[2]
FracGT(r, q) == r[1] * q[2] > q[1] * r[2]

(***************************************************************************)
(* is_initial, compare_names                                               *)
(***************************************************************************)
is_initial(name) ==
    LET cleaned == Lower(Strip(name))
    IN  \/ Len(cleaned) = 1 /\ IsAlpha(cleaned[1])
        \/ Len(cleaned) = 2 /\ IsAlpha(cleaned[1]) /\ cleaned[2] = "."

\* lines 98-103: exact equality, or one name equal and the other contained
SubstringAccept(fn_ta, ln_ta, fn_sheet, ln_sheet) ==
    \/ fn_ta = fn_sheet /\ ln_ta = ln_sheet
    \/ Contains(fn_ta, fn_sheet) /\ ln_sheet = ln_ta
    \/ Contains(fn_sheet, fn_ta) /\ ln_ta = ln_sheet
    \/ fn_ta = fn_sheet /\ Contains(ln_ta, ln_sheet)
    \/ fn_sheet = fn_ta /\ Contains(ln_sheet, ln_ta)

\* lines 108-131: the row's first or last name is an initial
InitialVerdict(fn_ta, ln_ta, fn_sheet, ln_sheet, pct) ==
    IF is_initial(fn_ta) /\ ~StartsWith(fn_sheet, <<LowerChar(fn_ta[1])>>)
    THEN "reject_now"
    ELSE IF is_initial(ln_ta) /\ ~StartsWith(ln_sheet, <<LowerChar(ln_ta[1])>>)
    THEN "reject_now"
    ELSE IF is_initial(fn_ta) /\ ~is_initial(ln_ta) THEN
        IF RatioAtLeast(ln_ta, ln_sheet, pct) THEN "manual_review" ELSE "reject_now"
    ELSE IF is_initial(ln_ta) /\ ~is_initial(fn_ta) THEN
        IF RatioAtLeast(fn_ta, fn_sheet, pct) THEN "manual_review" ELSE "reject_now"
    ELSE "manual_review"

\* FullNameVerdict answering auto_accept where line 146 answers manual_review
FullNameVerdictEitherSimilar(fn_ta, ln_ta, fn_sheet, ln_sheet, pct) ==
    IF fn_ta = fn_sheet /\ RatioAtLeast(ln_ta, ln_sheet, pct) THEN "auto_accept"
    ELSE IF ln_ta = ln_sheet /\ RatioAtLeast(fn_ta, fn_sheet, pct) THEN "auto_accept"
    ELSE IF RatioAtLeast(fn_ta, fn_sheet, pct) /\ RatioAtLeast(ln_ta, ln_sheet, pct)
    THEN "auto_accept"
    ELSE "reject_now"

\* lines 133-148: two full names
FullNameVerdict(fn_ta, ln_ta, fn_sheet, ln_sheet, pct) ==
    IF fn_ta = fn_sheet /\ RatioAtLeast(ln_ta, ln_sheet, pct) THEN "auto_accept"
    ELSE IF ln_ta = ln_sheet /\ RatioAtLeast(fn_ta, fn_sheet, pct) THEN "auto_accept"
    ELSE IF RatioAtLeast(fn_ta, fn_sheet, pct) /\ RatioAtLeast(ln_ta, ln_sheet, pct)
    THEN "manual_review"
    ELSE "reject_now"

\* str(x) if pd.notna(x) else ""
NaToEmpty(x) == IF x = NA THEN <<>> ELSE x

compare_names(fn_ta_in, ln_ta_in, fn_sheet_in, ln_sheet_in, pct) ==
    LET fn_ta == NaToEmpty(fn_ta_in)
        ln_ta == NaToEmpty(ln_ta_in)
        fn_sheet == NaToEmpty(fn_sheet_in)
        ln_sheet == NaToEmpty(ln_sheet_in)
    IN  IF SubstringAccept(fn_ta, ln_ta, fn_sheet, ln_sheet) THEN "auto_accept"
        ELSE IF is_initial(fn_ta) \/ is_initial(ln_ta)
        THEN InitialVerdict(fn_ta, ln_ta, fn_sheet, ln_sheet, pct)
        ELSE FullNameVerdict(fn_ta, ln_ta, fn_sheet, ln_sheet, pct)

(***************************************************************************)
(* update_names_if_substring                                               *)
(***************************************************************************)
\* Python's max(a, b, key=len): the first of the two when the lengths tie
LongerOf(a, b) == IF Len(b) > Len(a) THEN b ELSE a

\* "pd.isna(x) or not x" replaced by ""
NaOrEmptyToEmpty(x) == IF x = NA THEN <<>> ELSE x

\* update_names_if_substring that stores the input name whenever one name
\* contains the other
update_names_take_input(P, person_id, input_first_in, input_last) ==
    LET sheet_first == NaOrEmptyToEmpty(P[person_id].first_name)
        input_first == NaOrEmptyToEmpty(input_first_in)
        sheet_last  == P[person_id].last_name
        upd_first == \/ Contains(Lower(sheet_first), Lower(input_first))
                     \/ Contains(Lower(input_first), Lower(sheet_first))
        upd_last  == /\ sheet_last # NA
                     /\ input_last # NA
                     /\ \/ Contains(Lower(sheet_last), Lower(input_last))
                        \/ Contains(Lower(input_last), Lower(sheet_last))
    IN  [P EXCEPT ![person_id].first_name =
                        IF upd_first THEN input_first ELSE P[person_id].first_name,
                  ![person_id].last_name =
                        IF upd_last THEN input_last ELSE sheet_last]

\* The People table after update_names_if_substring(conn, person_id,
\* sheet_first, sheet_last, input_first, input_last); sheet_* are the stored
\* names of person_id
update_names_if_substring(P, person_id, input_first_in, input_last) ==
    LET sheet_first == NaOrEmptyToEmpty(P[person_id].first_name)
        input_first == NaOrEmptyToEmpty(input_first_in)
        sheet_last  == P[person_id].last_name
        upd_first == \/ Contains(Lower(sheet_first), Lower(input_first))
                     \/ Contains(Lower(input_first), Lower(sheet_first))
        upd_last  == /\ sheet_last # NA
                     /\ input_last # NA
                     /\ \/ Contains(Lower(sheet_last), Lower(input_last))
                        \/ Contains(Lower(input_last), Lower(sheet_last))
        new_first == IF upd_first THEN LongerOf(sheet_first, input_first)
                     ELSE P[person_id].first_name
        new_last  == IF upd_last THEN LongerOf(sheet_last, input_last)
                     ELSE sheet_last
    IN  [P EXCEPT ![person_id].first_name = new_first,
                  ![person_id].last_name = new_last]

(***************************************************************************)
(* find_person_id                                                          *)
(***************************************************************************)
\* None as a person id; People.id is a serial starting at 1
NoPerson == 0

\* The operator's answer at a "Select index or 'n' to skip" prompt
ChoiceN       == [kind |-> "n", i |-> 0]
ChoiceBad     == [kind |-> "bad", i |-> 0]
ChoiceIdx(k)  == [kind |-> "idx", i |-> k]

\* All orders in which a query without ORDER BY may return the rows S
Orders(S) ==
    {ord \in [1..Cardinality(S) -> S] : \A x \in S : \E k \in DOMAIN ord : ord[k] = x}

\* candidates[int(choice)] for every row order; {} when the index raises
Picked(S, choice) ==
    LET n == Cardinality(S)
    IN  IF choice.kind # "idx" \/ choice.i >= n \/ choice.i < 0 - n THEN {}
        ELSE {ord[IF choice.i >= 0 THEN choice.i + 1 ELSE n + choice.i + 1] :
                ord \in Orders(S)}

\* person_id of the Contacts rows with LOWER(contact_value) = LOWER(value)
ContactOwners(C, value) ==
    {c.person_id : c \in {d \in C : Lower(d.contact_value) = Lower(value)}}

\* Rows of People with LOWER(first_name) = first [AND LOWER(last_name) = last]
ExactNameRows(P, first_name, last_name) ==
    {id \in DOMAIN P :
        /\ P[id].first_name # NA
        /\ Lower(P[id].first_name) = first_name
        /\ \/ last_name = NA
           \/ last_name = <<>>
           \/ P[id].last_name # NA /\ Lower(P[id].last_name) = last_name}

\* Candidates of the fuzzy stage with the given verdict
FuzzyRows(P, first_name, last_name, verdict) ==
    {id \in DOMAIN P :
        compare_names(first_name,
                      IF last_name = NA THEN <<>> ELSE last_name,
                      P[id].first_name,
                      IF P[id].last_name = NA THEN <<>> ELSE P[id].last_name,
                      FuzzyThresholdPct) = verdict}

\* One way find_person_id can end
Found(pid, stage, prompted) == [pid |-> pid, stage |-> stage, prompted |-> prompted]

\* The result of a prompt over the candidates S
PromptOutcomes(S, choice, stage) ==
    IF Picked(S, choice) = {} THEN {Found(NoPerson, stage, TRUE)}
    ELSE {Found(id, stage, TRUE) : id \in Picked(S, choice)}

\* ContactStage trying the phone before the e-mail
ContactStagePhoneFirst(C, row, use_contacts) ==
    LET byEmail == IF use_contacts /\ row.email # NA
                   THEN ContactOwners(C, row.email) ELSE {}
        byPhone == IF use_contacts /\ row.phone # NA
                   THEN ContactOwners(C, row.phone) ELSE {}
    IN  IF byPhone # {} THEN {Found(id, "phone", FALSE) : id \in byPhone}
        ELSE IF byEmail # {} THEN {Found(id, "email", FALSE) : id \in byEmail}
        ELSE {}

\* Lines 182-216: the e-mail query, then the phone query; fetchone() takes
\* whichever matching row the query returns first.  {} when neither matches.
ContactStage(C, row, use_contacts) ==
    LET byEmail == IF use_contacts /\ row.email # NA
                   THEN ContactOwners(C, row.email) ELSE {}
        byPhone == IF use_contacts /\ row.phone # NA
                   THEN ContactOwners(C, row.phone) ELSE {}
    IN  IF byEmail # {} THEN {Found(id, "email", FALSE) : id \in byEmail}
        ELSE IF byPhone # {} THEN {Found(id, "phone", FALSE) : id \in byPhone}
        ELSE {}

\* ExactStage taking the first of several same-named rows without asking
ExactStageFirstOfMany(P, first_name, last_name, choice) ==
    LET exact == ExactNameRows(P, first_name, last_name)
    IN  IF exact # {}
        THEN {Found(CHOOSE id \in exact : \A o \in exact : id <= o, "exact", FALSE)}
        ELSE {}

\* Lines 221-258: one exact-name row is accepted, several are put to the
\* operator.  {} when no row has the name.
ExactStage(P, first_name, last_name, choice) ==
    LET exact == ExactNameRows(P, first_name, last_name)
    IN  IF Cardinality(exact) = 1 THEN {Found(id, "exact", FALSE) : id \in exact}
        ELSE IF Cardinality(exact) > 1 THEN PromptOutcomes(exact, choice, "exact")
        ELSE {}

\* Lines 260-324: compare_names against every People row
FuzzyStage(P, first_name, last_name, choice) ==
    LET autos   == FuzzyRows(P, first_name, last_name, "auto_accept")
        manuals == FuzzyRows(P, first_name, last_name, "manual_review")
    IN  IF Cardinality(autos) = 1 THEN {Found(id, "fuzzy", FALSE) : id \in autos}
        ELSE IF Cardinality(autos) > 1 THEN PromptOutcomes(autos, choice, "fuzzy")
        ELSE IF manuals # {} THEN PromptOutcomes(manuals, choice, "review")
        ELSE {Found(NoPerson, "none", FALSE)}

\* The set of ways find_person_id(row, conn, email_col, phone_col, ...) can
\* end on the tables P (People) and C (Contacts).  use_contacts is FALSE when
\* the caller passes no email_col/phone_col.  More than one way exists where
\* the result depends on the order in which a query returns its rows.
find_person_id(P, C, row, use_contacts, choice) ==
    LET first_name == IF row.first_name = NA THEN NA ELSE Lower(Strip(row.first_name))
        last_name  == IF row.last_name = NA THEN NA ELSE Lower(Strip(row.last_name))
    IN  IF ContactStage(C, row, use_contacts) # {}
        THEN ContactStage(C, row, use_contacts)
        ELSE IF first_name = NA \/ first_name = <<>>
        THEN {Found(NoPerson, "no_name", FALSE)}
        ELSE IF ExactStage(P, first_name, last_name, choice) # {}
        THEN ExactStage(P, first_name, last_name, choice)
        ELSE FuzzyStage(P, first_name, last_name, choice)

\* People after find_person_id ended with outcome f: every accepting path
\* calls update_names_if_substring with the row's lower-cased names
AfterFind(P, row, f) ==
    IF f.pid = NoPerson THEN P
    ELSE update_names_if_substring(P, f.pid,
            IF row.first_name = NA THEN NA ELSE Lower(Strip(row.first_name)),
            IF row.last_name = NA THEN NA ELSE Lower(Strip(row.last_name)))

(***************************************************************************)
(* match_tracking_link_to_person                                           *)
(***************************************************************************)
\* Tracking codes that name no person (lines 345-349); each is one atom
generic_codes ==
    {<<"default">>, <<"emailreferral">>, <<"email_first_button">>,
     <<"email_second_button">>, <<"email">>, <<"txt">>, <<"insta">>,
     <<"maillist">>, <<"lastname">>, <<"[name]">>}

\* x.lower() if x else ''
LowerOrEmpty(x) == IF x = NA THEN <<>> ELSE Lower(x)

\* The best fuzzy ratio of clean_name against one person's names; <<0, 1>>
\* when no name of the person is compared
PersonRatio(P, id, clean_name, is_single_word) ==
    LET first == LowerOrEmpty(P[id].first_name)
        last  == LowerOrEmpty(P[id].last_name)
        rf == IF first # <<>> THEN Ratio(clean_name, first) ELSE <<0, 1>>
        rl == IF ~is_single_word /\ last # <<>> THEN Ratio(clean_name, last) ELSE <<0, 1>>
    IN  IF FracGT(rl, rf) THEN rl ELSE rf

\* The ids match_tracking_link_to_person(conn, link_value) can return
\* ({NoPerson} for None); the loops run over People in the order the query
\* returns the rows, so any of several equally good rows can be the result
match_tracking_link_to_person(P, link_in) ==
    IF link_in = NA \/ link_in = <<>> THEN {NoPerson}
    ELSE
    LET link_value == Lower(Strip(link_in))
        is_single_word == \A i \in DOMAIN link_value :
                              link_value[i] # "_" /\ link_value[i] # "-"
        clean_name == Strip(ReplaceChar(ReplaceChar(link_value, "_", " "), "-", " "))
        exact == {id \in DOMAIN P :
                    \/ clean_name = LowerOrEmpty(P[id].first_name)
                    \/ ~is_single_word /\ clean_name = LowerOrEmpty(P[id].last_name)}
        good  == {id \in DOMAIN P :
                    /\ FracGE(PersonRatio(P, id, clean_name, is_single_word),
                              <<FuzzyThresholdPct, 100>>)
                    /\ FracGT(PersonRatio(P, id, clean_name, is_single_word), <<0, 1>>)}
        best  == {id \in good : \A o \in good :
                    FracGE(PersonRatio(P, id, clean_name, is_single_word),
                           PersonRatio(P, o, clean_name, is_single_word))}
    IN  IF link_value \in generic_codes THEN {NoPerson}
        ELSE IF exact # {} THEN exact
        ELSE IF best # {} THEN best
        ELSE {NoPerson}

(***************************************************************************)
(* normalize_school_with_email                                             *)
(***************************************************************************)
HasAtom(s, atom) == \E i \in DOMAIN s : s[i] = atom
HasAnyAtom(s, atoms) == \E i \in DOMAIN s : s[i] \in atoms

HarvardDomains == {"@harvard.edu", "@college.harvard.edu"}
GradDomains == {"@hbs.edu", "@hms.harvard.edu", "@hsph.harvard.edu", "@fas.harvard.edu"}
\* every domain atom that contains ".edu"
EduDomains == HarvardDomains \cup GradDomains \cup {"@hillel.harvard.edu", "@mit.edu"}

\* ".edu" in s
ContainsEdu(s) == HasAnyAtom(s, EduDomains)

\* x is neither NA nor blank: pd.notna(x) and x.strip()
NotBlank(x) == x # NA /\ Strip(x) # <<>>

normalize_school_with_email(school_response, general_email, school_email) ==
    LET se == Lower(Strip(school_email))
        ge == Lower(Strip(general_email))
        sr == Lower(Strip(school_response))
    IN  IF NotBlank(school_email) THEN
            IF HasAnyAtom(se, HarvardDomains) THEN <<"harvard">>
            ELSE IF HasAnyAtom(se, GradDomains \cup {"@hillel.harvard.edu"}) THEN <<"other">>
            ELSE IF HasAtom(se, "@mit.edu") THEN <<"mit">>
            ELSE <<"other">>
        ELSE IF NotBlank(general_email) /\ HasAnyAtom(ge, HarvardDomains) THEN <<"harvard">>
        ELSE IF NotBlank(general_email) /\ HasAnyAtom(ge, GradDomains) THEN <<"other">>
        ELSE IF NotBlank(general_email) /\ HasAtom(ge, "@mit.edu") THEN <<"mit">>
        ELSE IF NotBlank(general_email) /\ ContainsEdu(ge) THEN <<"other">>
        ELSE IF NotBlank(school_response) THEN
            IF HasAtom(sr, "harvard") /\ ~HasAtom(sr, "business") THEN <<"harvard">>
            ELSE IF HasAtom(sr, "mit") THEN <<"mit">>
            ELSE <<"other">>
        ELSE NA

(***************************************************************************)
(* Inputs: CSV files, event names, operator answers, subscriber e-mails    *)
(***************************************************************************)
\* One row of the ticketing export, as pandas reads it (NA for an empty
\* cell): "First Name", "Last Name", "Email", "What is your school email?",
\* "Phone Number", "Order Status", "Tickets Scanned", "Tracking Link" and
\* the referral column
CsvRow(first, last, email, school_email, phone, status, scanned, token, referral) ==
    [first_name |-> first, last_name |-> last, email |-> email,
     school_email |-> school_email, phone |-> phone, status |-> status,
     scanned |-> scanned, token |-> token, referral |-> referral]

RowAlBo   == CsvRow(<<"A", "l">>, <<"B", "o">>, <<"A", "@X.COM">>, NA, <<"5">>,
                    <<"Completed">>, <<"1">>, NA, NA)
RowAlCy   == CsvRow(<<"a", "l">>, <<"c", "y">>, NA, <<"b", "@mit.edu">>, NA,
                    <<"Completed">>, <<"1">>, <<"a", "l">>, NA)
RowAl     == CsvRow(<<" ", "a", "l">>, NA, NA, NA, NA,
                    <<"Completed">>, <<"0">>, NA, NA)
RowBlank  == CsvRow(NA, NA, NA, NA, NA,
                    <<"Completed">>, <<"1">>, NA, NA)
RowBea5X  == CsvRow(<<"B", "e", "a">>, NA, NA, NA, <<"5", "X">>,
                    NA, <<"0">>, NA, NA)
RowBea5x  == CsvRow(<<"B", "e", "a">>, NA, NA, NA, <<"5", "x">>,
                    <<"Completed">>, <<"1">>, <<"a", "l">>, <<"a", "l">>)

RowPool == {RowAlBo, RowAlCy, RowAl, RowBlank, RowBea5X, RowBea5x}

\* Longest CSV file, number of runs of raw_csv_to_sql.py, number of CSV rows
\* imported over all runs, number of events, number of subscriber sign-ups,
\* and the largest index typed at a prompt
MaxCsvLen == 2
MaxImports == 2
MaxRows == 3
MaxEvents == 2
MaxSubscribers == 1
MaxIndex == 1

RECURSIVE SeqsUpTo(_, _)
SeqsUpTo(S, n) ==
    IF n = 0 THEN {<<>>}
    ELSE SeqsUpTo(S, n - 1) \cup
         {Append(q, x) : q \in {r \in SeqsUpTo(S, n - 1) : Len(r) = n - 1}, x \in S}

CsvPool == SeqsUpTo(RowPool, MaxCsvLen)

\* The CSV files that keep the rows imported over all runs within MaxRows
CsvWithin(n) == {csv \in CsvPool : n + Len(csv) <= MaxRows}

EventNames == {"mixer", "dinner"}

Choices == {ChoiceN, ChoiceBad} \cup {ChoiceIdx(k) : k \in (0 - 1)..MaxIndex}

SubscriberEmails == {<<"s", "@mit.edu">>, <<"A", "@X.COM">>}

(***************************************************************************)
(* State                                                                   *)
(***************************************************************************)
VARIABLES
    People,        \* People: id -> [first_name, last_name, school, referral_count]
    peopleSeq,     \* last value of the People id sequence
    Contacts,      \* Contacts: set of [person_id, contact_type, contact_value]
    Events,        \* Events: id -> event_name
    InviteTokens,  \* InviteTokens: set of [id, event_id, category, value]
    tokenSeq,      \* last value of the InviteTokens id sequence
    Attendance,    \* Attendance: set of [person_id, event_id, rsvp, approved,
                   \*                     checked_in, invite_token_id]
    MailingList,   \* MailingList: bag of rows (id and row order left out)
    AllMailing,    \* AllMailing: bag of rows
    Subscribers,   \* Subscribers: set of [id, email]
    subSeq,        \* last value of the Subscribers id sequence
    run,           \* the raw_csv_to_sql.py process: where it is, its locals
    last,          \* record of the CSV row processed last (history)
    cmp            \* a call of compare_names: its arguments and verdict

db == <<People, peopleSeq, Contacts, Events, InviteTokens, tokenSeq, Attendance,
        MailingList, AllMailing, Subscribers, subSeq>>
vars == <<People, peopleSeq, Contacts, Events, InviteTokens, tokenSeq, Attendance,
          MailingList, AllMailing, Subscribers, subSeq, run, last, cmp>>

NoEvent == 0

Idle == [pc |-> "idle", csv |-> <<>>, processed_count |-> 0, event_id |-> NoEvent,
         invite_token_map |-> <<>>, runs |-> 0, exit |-> 0, seen |-> {},
         prevAllMailing |-> EmptyBag]

NoRow == [n |-> 0, row |-> RowBlank, again |-> FALSE,
          find |-> Found(NoPerson, "none", FALSE), pid |-> NoPerson,
          created |-> FALSE, event_id |-> NoEvent, referrer |-> NoPerson,
          by_link |-> NoPerson, by_column |-> NoPerson]

NoCmp == [fn_ta |-> <<>>, ln_ta |-> <<>>, fn_sheet |-> <<>>, ln_sheet |-> <<>>,
          verdict |-> "idle"]

Init ==
    /\ People = <<>>
    /\ peopleSeq = 0
    /\ Contacts = {}
    /\ Events = <<>>
    /\ InviteTokens = {}
    /\ tokenSeq = 0
    /\ Attendance = {}
    /\ MailingList = EmptyBag
    /\ AllMailing = EmptyBag
    /\ Subscribers = {}
    /\ subSeq = 0
    /\ run = Idle
    /\ last = NoRow
    /\ cmp = NoCmp

(***************************************************************************)
(* import_csv: one CSV row                                                 *)
(***************************************************************************)
\* lines 721-722: str(x).strip().title() if pd.notna(x) and str(x).strip() else ""
CleanName(raw) == IF raw # NA /\ Strip(raw) # <<>> THEN Title(Strip(raw)) ELSE <<>>
\* lines 724-725: str(x).strip().lower() if pd.notna(x) else ""
CleanEmail(raw) == IF raw # NA THEN Lower(Strip(raw)) ELSE <<>>
\* line 726: str(x).strip() if pd.notna(x) else ""
CleanPhone(raw) == IF raw # NA THEN Strip(raw) ELSE <<>>

\* lines 728-735: row_dict_for_matching
MatchingRow(row) ==
    [first_name |-> CleanName(row.first_name),
     last_name  |-> CleanName(row.last_name),
     email      |-> IF CleanEmail(row.school_email) # <<>>
                    THEN CleanEmail(row.school_email) ELSE CleanEmail(row.email),
     phone      |-> CleanPhone(row.phone)]

\* lines 894-897: the row find_person_id gets for the referral column
ReferrerRow(row) ==
    [first_name |-> Strip(row.referral), last_name |-> <<>>, email |-> NA, phone |-> NA]

\* lines 748-766: the People row inserted for an unmatched CSV row; the CSV
\* has no "What school do you go to?" column; referral_count takes its
\* column default 0
NewPerson(row) ==
    [first_name |-> CleanName(row.first_name),
     last_name  |-> CleanName(row.last_name),
     school     |-> normalize_school_with_email(NA, row.email, row.school_email),
     referral_count |-> 0]

Contact(pid, type, value) ==
    [person_id |-> pid, contact_type |-> type, contact_value |-> value]

\* RowContacts without the phone contact
RowContactsNoPhone(pid, row) ==
    LET school_email_clean == CleanEmail(row.school_email)
        email_clean == CleanEmail(row.email)
    IN  (IF school_email_clean # <<>>
         THEN {Contact(pid, "school email", school_email_clean)} ELSE {})
        \cup
        (IF email_clean # <<>> /\ email_clean # school_email_clean
         THEN {Contact(pid, IF ContainsEdu(email_clean) THEN "school email"
                            ELSE "personal email", email_clean)}
         ELSE {})

\* lines 771-795 and 799-820: the Contacts rows the import inserts for a CSV
\* row of person pid (the same three INSERTs on both branches)
RowContacts(pid, row) ==
    LET school_email_clean == CleanEmail(row.school_email)
        email_clean == CleanEmail(row.email)
        phone_clean == CleanPhone(row.phone)
    IN  (IF school_email_clean # <<>>
         THEN {Contact(pid, "school email", school_email_clean)} ELSE {})
        \cup
        (IF email_clean # <<>> /\ email_clean # school_email_clean
         THEN {Contact(pid, IF ContainsEdu(email_clean) THEN "school email"
                            ELSE "personal email", email_clean)}
         ELSE {})
        \cup
        (IF phone_clean # <<>> THEN {Contact(pid, "phone", phone_clean)} ELSE {})

\* InsertContacts that replaces the person's contacts of the same type
InsertContactsReplacing(C, new) ==
    {d \in C : ~\E c \in new : /\ d.person_id = c.person_id
                               /\ d.contact_type = c.contact_type
                               /\ d.contact_value # c.contact_value} \cup new

\* INSERT INTO Contacts ... ON CONFLICT (person_id, contact_type,
\* contact_value) DO NOTHING, for each row of new
InsertContacts(C, new) ==
    C \cup {c \in new :
              ~\E d \in C : /\ d.person_id = c.person_id
                            /\ d.contact_type = c.contact_type
                            /\ d.contact_value = c.contact_value}

\* line 825: str(raw_attended).strip().lower() in ["1", "1.0", "true", "yes"]
CheckedIn(row) ==
    /\ row.scanned # NA
    /\ Lower(Strip(row.scanned)) \in {<<"1">>, <<"1", ".", "0">>, <<"true">>, <<"yes">>}

\* lines 648-650 and 660: "email" becomes NA, NA becomes "default"
TokenOf(row) ==
    IF row.token = NA \/ row.token = <<"email">> THEN <<"default">> ELSE row.token

\* invite_token_map.get(token_str, invite_token_map.get("default"))
TokenId(map, token) ==
    IF token \in DOMAIN map THEN map[token]
    ELSE IF <<"default">> \in DOMAIN map THEN map[<<"default">>]
    ELSE 0

\* lines 824-846: the Attendance row of a CSV row
AttendanceRow(pid, event_id, row, map) ==
    [person_id  |-> pid,
     event_id   |-> event_id,
     rsvp       |-> row.status # NA,
     approved   |-> row.status \in {<<"Completed">>},
     checked_in |-> CheckedIn(row),
     invite_token_id |-> TokenId(map, TokenOf(row))]

\* InsertAttendance without the ON CONFLICT clause
InsertAttendanceAlways(A, a) == A \cup {a}

\* INSERT INTO Attendance ... ON CONFLICT (person_id, event_id) DO NOTHING
InsertAttendance(A, a) ==
    IF \E d \in A : d.person_id = a.person_id /\ d.event_id = a.event_id
    THEN A ELSE A \cup {a}

\* CountReferral that counts a referral by the attendee too
CountReferralWithSelf(P, referrer_id, matched_person_id) ==
    IF referrer_id # NoPerson
    THEN [P EXCEPT ![referrer_id].referral_count = @ + 1]
    ELSE P

\* lines 900-909: the increment of the referrer's referral_count
CountReferral(P, referrer_id, matched_person_id) ==
    IF referrer_id # NoPerson /\ referrer_id # matched_person_id
    THEN [P EXCEPT ![referrer_id].referral_count = @ + 1]
    ELSE P

\* lines 709-914: one pass of the loop over the CSV rows; the operator may
\* give any answer of Choices at a prompt of find_person_id
ImportRow ==
    /\ run.pc = "import"
    /\ run.processed_count < Len(run.csv)
    /\ LET row == run.csv[run.processed_count + 1]
           m   == MatchingRow(row)
       IN  \E f \in UNION {find_person_id(People, Contacts, m, TRUE, choice) :
                               choice \in Choices} :
           LET P1 == AfterFind(People, m, f)
               created == f.pid = NoPerson
               pid == IF created THEN peopleSeq + 1 ELSE f.pid
               P2 == IF created THEN P1 @@ (pid :> NewPerson(row)) ELSE P1
               C2 == InsertContacts(Contacts, RowContacts(pid, row))
               A2 == InsertAttendance(Attendance,
                        AttendanceRow(pid, run.event_id, row, run.invite_token_map))
               use_ref == CheckedIn(row) /\ row.referral # NA
           IN  \E by_link \in (IF CheckedIn(row)
                              THEN match_tracking_link_to_person(P2, TokenOf(row))
                              ELSE {NoPerson}) :
               \E rf \in (IF use_ref
                         THEN UNION {find_person_id(P2, C2, ReferrerRow(row), FALSE,
                                                    choice) : choice \in Choices}
                         ELSE {Found(NoPerson, "skipped", FALSE)}) :
               LET P3 == IF use_ref THEN AfterFind(P2, ReferrerRow(row), rf) ELSE P2
                   referrer_id == IF rf.pid # NoPerson THEN rf.pid ELSE by_link
                   P4 == CountReferral(P3, referrer_id, pid)
               IN  /\ People' = P4
                   /\ peopleSeq' = IF created THEN pid ELSE peopleSeq
                   /\ Contacts' = C2
                   /\ Attendance' = A2
                   /\ run' = [run EXCEPT !.processed_count = @ + 1]
                   /\ last' = [n |-> last.n + 1, row |-> row,
                               again |-> row \in run.seen, find |-> f, pid |-> pid,
                               created |-> created, event_id |-> run.event_id,
                               referrer |-> IF referrer_id # pid THEN referrer_id
                                            ELSE NoPerson,
                               by_link |-> by_link, by_column |-> rf.pid]
    /\ UNCHANGED <<Events, InviteTokens, tokenSeq, MailingList, AllMailing,
                   Subscribers, subSeq, cmp>>

(***************************************************************************)
(* main of raw_csv_to_sql.py: event selection, invite tokens, the import   *)
(***************************************************************************)
\* pandas' Series.unique(): the distinct values in order of first appearance
RECURSIVE UniqueInOrder(_)
UniqueInOrder(q) ==
    IF q = <<>> THEN <<>>
    ELSE LET front == UniqueInOrder(SubSeq(q, 1, Len(q) - 1))
             x == q[Len(q)]
         IN  IF \E i \in DOMAIN front : front[i] = x THEN front ELSE Append(front, x)

\* lines 665-672: value -> id over the InviteTokens rows of the event
ExistingTokenMap(T, event_id) ==
    LET mine == {t \in T : t.event_id = event_id}
    IN  [v \in {t.value : t \in mine} |->
            CHOOSE id \in {t.id : t \in {u \in mine : u.value = v}} : TRUE]

\* lines 674-696: insert the tokens of the CSV the event does not have yet;
\* st = [tokens, seq, map]
RECURSIVE AddTokens(_, _, _)
AddTokens(st, event_id, toks) ==
    IF toks = <<>> THEN st
    ELSE LET tok == Head(toks)
             st2 == IF tok \in DOMAIN st.map THEN st
                    ELSE [tokens |-> st.tokens \cup
                                {[id |-> st.seq + 1, event_id |-> event_id,
                                  category |-> IF tok # <<"default">>
                                               THEN "personal outreach"
                                               ELSE "mailing list",
                                  value |-> tok]},
                          seq |-> st.seq + 1,
                          map |-> st.map @@ (tok :> st.seq + 1)]
         IN  AddTokens(st2, event_id, Tail(toks))

\* import_csv up to the loop over the rows (lines 580-707), for event_id
BeginImport(event_id, csv) ==
    LET toks == UniqueInOrder([i \in DOMAIN csv |-> TokenOf(csv[i])])
        st == AddTokens([tokens |-> InviteTokens, seq |-> tokenSeq,
                         map |-> ExistingTokenMap(InviteTokens, event_id)],
                        event_id, toks)
    IN  /\ InviteTokens' = st.tokens
        /\ tokenSeq' = st.seq
        /\ run' = [run EXCEPT !.pc = "import", !.csv = csv, !.processed_count = 0,
                              !.event_id = event_id, !.invite_token_map = st.map,
                              !.runs = @ + 1, !.exit = 0]

\* SELECT COALESCE(MAX(id), 0) + 1 FROM Events
NextEventId == IF DOMAIN Events = {} THEN 1
               ELSE 1 + CHOOSE id \in DOMAIN Events : \A o \in DOMAIN Events : o <= id

\* main with mode "new": create_event inserts the event, import_csv starts
MainNewEvent(name, csv) ==
    /\ run.pc = "idle"
    /\ run.runs < MaxImports
    /\ Cardinality(DOMAIN Events) < MaxEvents
    /\ ~\E id \in DOMAIN Events : Events[id] = name
    /\ Events' = Events @@ (NextEventId :> name)
    /\ BeginImport(NextEventId, csv)
    /\ UNCHANGED <<People, peopleSeq, Contacts, Attendance, MailingList, AllMailing,
                   Subscribers, subSeq, last, cmp>>

\* main with mode "new" and the name of an existing event: create_event
\* returns None, main exits with status 1
MainNewEventExists(name) ==
    /\ run.pc = "idle"
    /\ run.runs < MaxImports
    /\ \E id \in DOMAIN Events : Events[id] = name
    /\ run' = [run EXCEPT !.runs = @ + 1, !.exit = 1]
    /\ UNCHANGED <<db, last, cmp>>

\* main with mode "existing": select_existing_event returns the chosen event
MainExistingEvent(event_id, csv) ==
    /\ run.pc = "idle"
    /\ run.runs < MaxImports
    /\ event_id \in DOMAIN Events
    /\ BeginImport(event_id, csv)
    /\ UNCHANGED <<People, peopleSeq, Contacts, Events, Attendance, MailingList,
                   AllMailing, Subscribers, subSeq, last, cmp>>

\* main with an invalid mode, or mode "existing" and no event, 'q' or an
\* invalid number at the prompt: exit status 1
MainNoEvent ==
    /\ run.pc = "idle"
    /\ run.runs < MaxImports
    /\ run' = [run EXCEPT !.runs = @ + 1, !.exit = 1]
    /\ UNCHANGED <<db, last, cmp>>

\* lines 924-937, 946: the loop is over; final commit, the connection closes
ImportDone ==
    /\ run.pc = "import"
    /\ run.processed_count = Len(run.csv)
    /\ run' = [run EXCEPT !.pc = "refresh",
                          !.seen = @ \cup {run.csv[i] : i \in DOMAIN run.csv}]
    /\ UNCHANGED <<db, last, cmp>>

(***************************************************************************)
(* update_mailing_lists                                                    *)
(***************************************************************************)
\* Sort order of the atoms (byte order)
Collation ==
    <<" ", "-", ".", "0", "1", "5", "@MIT.EDU", "@X.COM", "@mit.edu", "@x.com",
      "A", "B", "C", "E", "J", "L", "O", "S", "X", "Y", "_",
      "a", "b", "c", "e", "j", "l", "o", "s", "x", "y">>
Rank(c) == CHOOSE i \in DOMAIN Collation : Collation[i] = c

RECURSIVE TextLess(_, _)
TextLess(a, b) ==
    IF b = <<>> THEN FALSE
    ELSE IF a = <<>> THEN TRUE
    ELSE IF Head(a) = Head(b) THEN TextLess(Tail(a), Tail(b))
    ELSE Rank(Head(a)) < Rank(Head(b))

\* SQL MAX over text values; NULL for no value
MaxText(S) == IF S = {} THEN NA
              ELSE CHOOSE x \in S : \A y \in S : y = x \/ TextLess(y, x)

\* SumFlag that counts every row
SumFlagAll(S, flag) == Cardinality(S)

\* SUM(CASE WHEN flag THEN 1 ELSE 0 END) over the rows S
RECURSIVE SumFlag(_, _)
SumFlag(S, flag) ==
    IF S = {} THEN 0
    ELSE LET a == CHOOSE x \in S : TRUE
         IN  (IF a[flag] THEN 1 ELSE 0) + SumFlag(S \ {a}, flag)

ValuesOfType(C, pid, type) ==
    {c.contact_value : c \in {d \in C : d.person_id = pid /\ d.contact_type = type}}

\* lines 958-1002: the MailingList row of person id (gender, class_year and
\* is_jewish are copied columns, left out)
MailingListRow(P, C, A, id) ==
    LET mine == {a \in A : a.person_id = id}
        school_email   == MaxText(ValuesOfType(C, id, "school email"))
        personal_email == MaxText(ValuesOfType(C, id, "personal email"))
    IN  [first_name |-> P[id].first_name,
         last_name  |-> P[id].last_name,
         school     |-> P[id].school,
         event_attendance_count |-> SumFlag(mine, "checked_in"),
         event_rsvp_count       |-> SumFlag(mine, "rsvp"),
         school_email   |-> school_email,
         personal_email |-> personal_email,
         preferred_email |-> IF school_email # NA THEN school_email ELSE personal_email,
         phone_number   |-> MaxText(ValuesOfType(C, id, "phone"))]

\* lines 958-1005: the rows the INSERT ... SELECT puts into MailingList, one
\* per People row
NewMailingList(P, C, A) ==
    [r \in {MailingListRow(P, C, A, id) : id \in DOMAIN P} |->
        Cardinality({id \in DOMAIN P : MailingListRow(P, C, A, id) = r})]

\* lines 1014-1034: the AllMailing row of e-mail contact c
AllMailingRow(P, A, c) ==
    [first_name |-> P[c.person_id].first_name,
     last_name  |-> P[c.person_id].last_name,
     school     |-> P[c.person_id].school,
     contact_value |-> c.contact_value,
     event_count |-> Cardinality({a \in A : a.person_id = c.person_id /\ a.checked_in})]

EmailTypes == {"school email", "personal email"}

\* lines 1014-1034: the rows of the SELECT, one per e-mail contact joined to
\* its person
EmailContactRows(P, C, A) ==
    LET emails == {c \in C : c.contact_type \in EmailTypes /\ c.person_id \in DOMAIN P}
    IN  [r \in {AllMailingRow(P, A, c) : c \in emails} |->
            Cardinality({c \in emails : AllMailingRow(P, A, c) = r})]

\* NewAllMailing that keeps the rows AllMailing already has
NewAllMailingAppend(P, C, A, old) == old (+) EmailContactRows(P, C, A)

\* lines 1011-1038: TRUNCATE AllMailing, then one row per e-mail contact
\* joined to its person; old is the table before
NewAllMailing(P, C, A, old) == EmailContactRows(P, C, A)

\* update_mailing_lists, called by main after import_csv returned
UpdateMailingLists ==
    /\ run.pc = "refresh"
    /\ MailingList' = NewMailingList(People, Contacts, Attendance)
    /\ AllMailing' = NewAllMailing(People, Contacts, Attendance, AllMailing)
    /\ run' = [run EXCEPT !.pc = "idle", !.csv = <<>>, !.processed_count = 0,
                          !.event_id = NoEvent, !.invite_token_map = <<>>,
                          !.prevAllMailing = AllMailing]
    /\ UNCHANGED <<People, peopleSeq, Contacts, Events, InviteTokens, tokenSeq,
                   Attendance, Subscribers, subSeq, last, cmp>>

(***************************************************************************)
(* sync_subscribers_to_mailing.py                                          *)
(***************************************************************************)
\* A sign-up on the web site adds a Subscribers row (the table this script
\* reads is filled outside this repository)
Subscribe(email) ==
    /\ run.pc = "idle"
    /\ subSeq < MaxSubscribers
    /\ Subscribers' = Subscribers \cup {[id |-> subSeq + 1, email |-> email]}
    /\ subSeq' = subSeq + 1
    /\ UNCHANGED <<People, peopleSeq, Contacts, Events, InviteTokens, tokenSeq,
                   Attendance, MailingList, AllMailing, run, last, cmp>>

detect_school_from_email(email) ==
    LET email_lower == Lower(email)
    IN  IF HasAnyAtom(email_lower, HarvardDomains) THEN <<"Harvard">>
        ELSE IF HasAtom(email_lower, "@mit.edu") THEN <<"MIT">>
        ELSE NA

\* SyncLoop that looks for the e-mail in AllMailing as it is spelled
RECURSIVE SyncLoopCaseSensitive(_, _)
SyncLoopCaseSensitive(st, todo) ==
    IF todo = {} THEN st
    ELSE LET sub == CHOOSE x \in todo : \A y \in todo : x.id <= y.id
             existing == \E r \in BagToSet(st.all) : r.contact_value = sub.email
             st2 == IF existing
                    THEN [st EXCEPT !.skipped = @ + 1,
                                    !.subs = @ \ {sub},
                                    !.deleted = @ + 1]
                    ELSE [st EXCEPT !.all = @ (+) SetToBag({
                                        [first_name |-> <<>>, last_name |-> <<>>,
                                         school |-> detect_school_from_email(sub.email),
                                         contact_value |-> Lower(sub.email),
                                         event_count |-> 0]}),
                                    !.added = @ + 1,
                                    !.subs = @ \ {sub},
                                    !.deleted = @ + 1]
         IN  SyncLoopCaseSensitive(st2, todo \ {sub})

\* lines 62-94: the loop over the subscribers in id order;
\* st = [all, subs, added, skipped, deleted]
RECURSIVE SyncLoop(_, _)
SyncLoop(st, todo) ==
    IF todo = {} THEN st
    ELSE LET sub == CHOOSE x \in todo : \A y \in todo : x.id <= y.id
             existing == \E r \in BagToSet(st.all) :
                            Lower(r.contact_value) = Lower(sub.email)
             st2 == IF existing
                    THEN [st EXCEPT !.skipped = @ + 1,
                                    !.subs = @ \ {sub},
                                    !.deleted = @ + 1]
                    ELSE [st EXCEPT !.all = @ (+) SetToBag({
                                        [first_name |-> <<>>, last_name |-> <<>>,
                                         school |-> detect_school_from_email(sub.email),
                                         contact_value |-> Lower(sub.email),
                                         event_count |-> 0]}),
                                    !.added = @ + 1,
                                    !.subs = @ \ {sub},
                                    !.deleted = @ + 1]
         IN  SyncLoop(st2, todo \ {sub})

sync_subscribers_to_mailing ==
    SyncLoop([all |-> AllMailing, subs |-> Subscribers,
              added |-> 0, skipped |-> 0, deleted |-> 0], Subscribers)

\* main of sync_subscribers_to_mailing.py: commit, or roll back on --dry-run
SyncSubscribers(dry_run) ==
    /\ run.pc = "idle"
    /\ Subscribers # {}
    /\ AllMailing' = IF dry_run THEN AllMailing ELSE sync_subscribers_to_mailing.all
    /\ Subscribers' = IF dry_run THEN Subscribers ELSE sync_subscribers_to_mailing.subs
    /\ UNCHANGED <<People, peopleSeq, Contacts, Events, InviteTokens, tokenSeq,
                   Attendance, MailingList, subSeq, run, last, cmp>>

(***************************************************************************)
(* The toolkit: scripts run one at a time                                  *)
(***************************************************************************)
Next ==
    \/ \E name \in EventNames, csv \in CsvWithin(last.n) : MainNewEvent(name, csv)
    \/ \E name \in EventNames : MainNewEventExists(name)
    \/ \E event_id \in DOMAIN Events, csv \in CsvWithin(last.n) :
            MainExistingEvent(event_id, csv)
    \/ MainNoEvent
    \/ ImportRow
    \/ ImportDone
    \/ UpdateMailingLists
    \/ \E email \in SubscriberEmails : Subscribe(email)
    \/ \E dry_run \in BOOLEAN : SyncSubscribers(dry_run)

Spec == Init /\ [][Next]_vars

(***************************************************************************)
(* compare_names on its own: every combination of short names              *)
(***************************************************************************)
\* Longest name tried
MaxNameLen == 3

\* First names: letters j, o, an optional final "."; last names: letter s,
\* an optional final "."
RECURSIVE Words(_, _)
Words(letters, n) ==
    IF n = 0 THEN {<<>>}
    ELSE Words(letters, n - 1) \cup
         {Append(w, c) : w \in {v \in Words(letters, n - 1) : Len(v) = n - 1},
                         c \in letters}

Dotted(letters, n) ==
    Words(letters, n) \cup {Append(w, ".") : w \in Words(letters, n - 1) \ {<<>>}}

FirstNames == Dotted({"j", "o"}, MaxNameLen)
LastNames  == Dotted({"s"}, MaxNameLen)

InitNames ==
    /\ People = <<>>
    /\ peopleSeq = 0
    /\ Contacts = {}
    /\ Events = <<>>
    /\ InviteTokens = {}
    /\ tokenSeq = 0
    /\ Attendance = {}
    /\ MailingList = EmptyBag
    /\ AllMailing = EmptyBag
    /\ Subscribers = {}
    /\ subSeq = 0
    /\ run = Idle
    /\ last = NoRow
    /\ cmp \in [fn_ta : FirstNames, ln_ta : LastNames, fn_sheet : FirstNames,
                ln_sheet : LastNames, verdict : {"asked"}]

\* find_person_id line 267: the call of compare_names
CompareNames ==
    /\ cmp.verdict = "asked"
    /\ cmp' = [cmp EXCEPT !.verdict =
                  compare_names(cmp.fn_ta, cmp.ln_ta, cmp.fn_sheet, cmp.ln_sheet,
                                FuzzyThresholdPct)]
    /\ UNCHANGED <<db, run, last>>

NextNames == CompareNames

SpecNames == InitNames /\ [][NextNames]_vars

(***************************************************************************)
(* Properties of the import (specification Spec)                           *)
(***************************************************************************)
\* The step of import_csv that processes one CSV row
RowStep == last'.n # last.n

\* The step in which update_mailing_lists commits
RefreshStep == run.pc = "refresh" /\ run'.pc = "idle"

\* C1: a CSV row that an earlier import_csv run already imported (its
\* individual has a People row since then) is matched by find_person_id in a
\* later run, which inserts no People row for it.  Rows on which the operator
\* was asked to choose are left aside.
C1_ReimportAddsNoPerson ==
    (last.n > 0 /\ last.again /\ ~last.find.prompted) => ~last.created

\* C2: if the row's e-mail equals, case-insensitively, the contact_value of
\* a Contacts row, find_person_id returns that contact's person_id at the
\* e-mail stage, with no name comparison and no prompt; if no e-mail matches
\* but the row's phone equals a contact_value, it returns that contact's
\* person_id at the phone stage likewise; import_csv then uses that person.
C2_ContactMatchBeforeNames ==
    [][RowStep =>
        LET m == MatchingRow(last'.row)
            f == last'.find
            byEmail == {c \in Contacts : Lower(c.contact_value) = Lower(m.email)}
            byPhone == {c \in Contacts : Lower(c.contact_value) = Lower(m.phone)}
        IN  /\ byEmail # {} =>
                /\ \E c \in byEmail : f.pid = c.person_id
                /\ f.stage = "email"
                /\ ~f.prompted
            /\ (byEmail = {} /\ byPhone # {}) =>
                /\ \E c \in byPhone : f.pid = c.person_id
                /\ f.stage = "phone"
                /\ ~f.prompted
            /\ (byEmail # {} \/ byPhone # {}) =>
                /\ last'.pid = f.pid
                /\ ~last'.created
    ]_vars

\* C2 happens: a row matched by its e-mail although its phone is the value
\* of a Contacts row as well
C2_EmailWinsOverPhone ==
    /\ last.n > 0
    /\ last.find.stage = "email"
    /\ \E c \in Contacts : /\ c.contact_type = "phone"
                           /\ Lower(c.contact_value) = Lower(CleanPhone(last.row.phone))

\* C3, as stated: when no contact matches, the exact-name stage returns a
\* person without prompting if and only if exactly one People row has the
\* same (first name, last name) case-insensitively; with several such rows
\* the result is the operator's pick among them or None.  Read of the rows
\* that reach the stage, those with a first name.
C3_ExactIffOneSameFullName ==
    [][(RowStep /\ last'.find.stage \notin {"email", "phone", "no_name"}) =>
        LET m == MatchingRow(last'.row)
            f == last'.find
            same == {id \in DOMAIN People :
                        /\ Lower(People[id].first_name) = Lower(m.first_name)
                        /\ Lower(People[id].last_name) = Lower(m.last_name)}
        IN  /\ (f.stage = "exact" /\ ~f.prompted /\ f.pid # NoPerson)
                    <=> Cardinality(same) = 1
            /\ Cardinality(same) > 1 =>
                    f.prompted /\ f.pid \in same \cup {NoPerson}
    ]_vars

\* C3, amended: when no contact matches and the row has a first name, the
\* exact-name stage returns a person without prompting if and only if
\* exactly one People row has the same first name and, when the row has a
\* last name, the same last name, case-insensitively; that row is the
\* result.  With several such rows the operator is asked and the result is
\* the operator's pick among them or None.  A row without a first name gets
\* None before the stage.
C3_ExactNameStage ==
    [][(RowStep /\ last'.find.stage \notin {"email", "phone"}) =>
        LET m == MatchingRow(last'.row)
            f == last'.find
            same == {id \in DOMAIN People :
                        /\ Lower(People[id].first_name) = Lower(m.first_name)
                        /\ \/ m.last_name = <<>>
                           \/ Lower(People[id].last_name) = Lower(m.last_name)}
        IN  IF m.first_name = <<>>
            THEN f.pid = NoPerson /\ ~f.prompted /\ f.stage = "no_name"
            ELSE /\ (f.stage = "exact" /\ ~f.prompted /\ f.pid # NoPerson)
                        <=> Cardinality(same) = 1
                 /\ Cardinality(same) = 1 => f.pid \in same
                 /\ Cardinality(same) > 1 =>
                        /\ f.stage = "exact"
                        /\ f.prompted
                        /\ f.pid \in same \cup {NoPerson}
    ]_vars

\* C3 happens: several People rows have the row's name and the operator
\* picked one of them by index
C3_OperatorPickedAmongSeveral ==
    /\ last.n > 0
    /\ last.find.stage = "exact"
    /\ last.find.prompted
    /\ last.find.pid # NoPerson

\* C6: whenever find_person_id yields no person for a CSV row (also after
\* 'n' or an invalid index at a prompt), import_csv inserts exactly one new
\* People row for it and attaches the row's e-mail and phone contacts and
\* its attendance record to the new person.
C6_NoMatchCreatesPerson ==
    [][(RowStep /\ last'.find.pid = NoPerson) =>
        LET row == last'.row
            pid == last'.pid
        IN  /\ last'.created
            /\ DOMAIN People' \ DOMAIN People = {pid}
            /\ DOMAIN People \subseteq DOMAIN People'
            /\ People'[pid].first_name = CleanName(row.first_name)
            /\ People'[pid].last_name = CleanName(row.last_name)
            /\ \A raw \in {row.email, row.school_email} :
                  (raw # NA /\ Strip(raw) # <<>>) =>
                      \E c \in Contacts' : /\ c.person_id = pid
                                          /\ c.contact_type \in EmailTypes
                                          /\ c.contact_value = Lower(Strip(raw))
            /\ (row.phone # NA /\ Strip(row.phone) # <<>>) =>
                  \E c \in Contacts' : /\ c.person_id = pid
                                      /\ c.contact_type = "phone"
                                      /\ c.contact_value = Strip(row.phone)
            /\ \A c \in Contacts' \ Contacts : c.person_id = pid
            /\ \E a \in Attendance' \ Attendance :
                  /\ a.person_id = pid
                  /\ a.event_id = run.event_id
                  /\ a.checked_in = CheckedIn(row)
                  /\ a.rsvp = (row.status # NA)
    ]_vars

\* C6 happens: the operator declined every candidate at a prompt and the row
\* became a new person with its attendance record
C6_DeclinedRowBecamePerson ==
    /\ last.n > 0
    /\ last.find.prompted
    /\ last.created
    /\ last.pid \in DOMAIN People
    /\ \E a \in Attendance : a.person_id = last.pid /\ a.event_id = last.event_id

\* C7: after any sequence of import_csv runs from an empty Contacts table,
\* no two Contacts rows have the same person_id, the same contact_type and
\* the same case-folded contact_value.
C7_NoCaseFoldedDuplicateContacts ==
    \A c, d \in Contacts :
        (/\ c.person_id = d.person_id
         /\ c.contact_type = d.contact_type
         /\ Lower(c.contact_value) = Lower(d.contact_value)) => c = d

\* C8: no two Attendance rows share (person_id, event_id), and a CSV row
\* whose (person, event) already has an Attendance row leaves every existing
\* Attendance row as it was.
C8_OneAttendancePerPersonEvent ==
    [][/\ \A a, b \in Attendance' :
            (a.person_id = b.person_id /\ a.event_id = b.event_id) => a = b
       /\ RowStep => Attendance \subseteq Attendance'
       /\ (RowStep /\ \E a \in Attendance : /\ a.person_id = last'.pid
                                           /\ a.event_id = last'.event_id)
            => Attendance' = Attendance
    ]_vars

\* C8 happens: the row processed last conflicts with the Attendance row its
\* person already had for the event, which kept its checked_in value
C8_ConflictingRowIgnored ==
    /\ last.n > 0
    /\ \E a \in Attendance : /\ a.person_id = last.pid
                             /\ a.event_id = last.event_id
                             /\ a.checked_in # CheckedIn(last.row)

\* Number of Attendance rows of person id with the flag set
FlagCount(A, id, flag) == Cardinality({a \in A : a.person_id = id /\ a[flag]})

\* Number of rows of the bag B that are in the set hit
RowsIn(B, hit) == BagCardinality([r \in BagToSet(B) \cap hit |-> B[r]])

\* C9: after update_mailing_lists commits, MailingList has one row per
\* People row, and each person's row carries as event_attendance_count and
\* event_rsvp_count the number of the person's Attendance rows with
\* checked_in and with rsvp (0 when the person has none).
C9_MailingListCounts ==
    [][RefreshStep =>
        /\ BagCardinality(MailingList') = Cardinality(DOMAIN People')
        /\ \A id \in DOMAIN People' :
            LET Same(first, last_name, attended, rsvped) ==
                    /\ first = People'[id].first_name
                    /\ last_name = People'[id].last_name
                    /\ attended = FlagCount(Attendance', id, "checked_in")
                    /\ rsvped = FlagCount(Attendance', id, "rsvp")
            IN  RowsIn(MailingList',
                       {r \in BagToSet(MailingList') :
                            Same(r.first_name, r.last_name,
                                 r.event_attendance_count, r.event_rsvp_count)})
                = Cardinality({o \in DOMAIN People' :
                      Same(People'[o].first_name, People'[o].last_name,
                           FlagCount(Attendance', o, "checked_in"),
                           FlagCount(Attendance', o, "rsvp"))})
    ]_vars

\* C9 happens: the refreshed MailingList has a row of a person who checked
\* in at two events and a row of a person with an RSVP and no check-in
C9_CountsDiffer ==
    /\ run.pc = "idle"
    /\ \E r \in BagToSet(MailingList) : r.event_attendance_count = 2
    /\ \E r \in BagToSet(MailingList) :
            r.event_attendance_count = 0 /\ r.event_rsvp_count > 0

\* C10: after update_mailing_lists commits, AllMailing holds exactly one row
\* per Contacts row of type 'school email' or 'personal email' and nothing
\* else: a row that was there before and has no such Contacts row is gone.
C10_AllMailingRebuilt ==
    [][RefreshStep =>
        LET emails == {c \in Contacts' : c.contact_type \in EmailTypes}
        IN  /\ BagCardinality(AllMailing') = Cardinality(emails)
            /\ \A c \in emails :
                  RowsIn(AllMailing', {r \in BagToSet(AllMailing') :
                                          r.contact_value = c.contact_value})
                  = Cardinality({d \in emails : d.contact_value = c.contact_value})
            /\ \A r \in BagToSet(AllMailing) :
                  (~\E c \in emails : c.contact_value = r.contact_value)
                      => ~BagIn(r, AllMailing')
    ]_vars

\* C10 happens: a row that sync_subscribers_to_mailing had added was in
\* AllMailing before the refresh and is absent after it, while the rows of
\* the e-mail contacts are there
C10_SubscriberRowGone ==
    /\ run.pc = "idle"
    /\ AllMailing # EmptyBag
    /\ \E r \in BagToSet(run.prevAllMailing) :
            /\ r.first_name = <<>>
            /\ r.event_count = 0
            /\ ~\E c \in Contacts : c.contact_value = r.contact_value
            /\ ~\E q \in BagToSet(AllMailing) : q.contact_value = r.contact_value

(***************************************************************************)
(* Properties of compare_names (specification SpecNames)                   *)
(***************************************************************************)
\* The other side's name begins with the initial's letter
SameLeadingLetter(initial, other) ==
    other # <<>> /\ LowerChar(other[1]) = LowerChar(initial[1])

\* All four names of the comparison are given
NamesGiven ==
    /\ cmp.fn_ta # <<>> /\ cmp.ln_ta # <<>>
    /\ cmp.fn_sheet # <<>> /\ cmp.ln_sheet # <<>>

\* C4: when the row's first name is an initial and its last name is not (or
\* the reverse), the candidate is rejected unless the candidate's
\* corresponding name has the same leading letter; with the same leading
\* letter it is rejected exactly when the similarity ratio of the other
\* name pair is below 0.8.  Read of comparisons in which no name is empty.
C4_InitialNeedsLeadingLetter ==
    (cmp.verdict \notin {"asked", "idle"} /\ NamesGiven) =>
        /\ (is_initial(cmp.fn_ta) /\ ~is_initial(cmp.ln_ta)) =>
              IF ~SameLeadingLetter(cmp.fn_ta, cmp.fn_sheet)
              THEN cmp.verdict = "reject_now"
              ELSE (cmp.verdict = "reject_now")
                     <=> ~RatioAtLeast(cmp.ln_ta, cmp.ln_sheet, FuzzyThresholdPct)
        /\ (is_initial(cmp.ln_ta) /\ ~is_initial(cmp.fn_ta)) =>
              IF ~SameLeadingLetter(cmp.ln_ta, cmp.ln_sheet)
              THEN cmp.verdict = "reject_now"
              ELSE (cmp.verdict = "reject_now")
                     <=> ~RatioAtLeast(cmp.fn_ta, cmp.fn_sheet, FuzzyThresholdPct)

\* Neither side of the comparison has an initial or nothing for a name
BothFullNames ==
    /\ NamesGiven
    /\ ~is_initial(cmp.fn_ta) /\ ~is_initial(cmp.ln_ta)
    /\ ~is_initial(cmp.fn_sheet) /\ ~is_initial(cmp.ln_sheet)

\* Both name pairs reach the similarity ratio 0.8
BothSimilar ==
    /\ RatioAtLeast(cmp.fn_ta, cmp.fn_sheet, FuzzyThresholdPct)
    /\ RatioAtLeast(cmp.ln_ta, cmp.ln_sheet, FuzzyThresholdPct)

\* C5, as stated: two full names that are not an exact (first, last) match
\* and whose first names and last names both have similarity >= 0.8 get the
\* verdict manual_review.
C5_SimilarFullNamesReviewed ==
    (/\ cmp.verdict \notin {"asked", "idle"}
     /\ BothFullNames
     /\ ~(cmp.fn_ta = cmp.fn_sheet /\ cmp.ln_ta = cmp.ln_sheet)
     /\ BothSimilar) => cmp.verdict = "manual_review"

\* C5, amended: two full names that differ in the first name and in the
\* last name and whose first names and last names both have similarity
\* >= 0.8 get the verdict manual_review; with one of the two names equal
\* the verdict is auto_accept.
C5_DifferingSimilarFullNamesReviewed ==
    (/\ cmp.verdict \notin {"asked", "idle"}
     /\ BothFullNames
     /\ ~(cmp.fn_ta = cmp.fn_sheet /\ cmp.ln_ta = cmp.ln_sheet)
     /\ BothSimilar) =>
        cmp.verdict = IF cmp.fn_ta # cmp.fn_sheet /\ cmp.ln_ta # cmp.ln_sheet
                      THEN "manual_review" ELSE "auto_accept"

\* C5 happens: a comparison of full names that differ in both names, both
\* pairs similar, ended in manual_review
C5_ReviewReached ==
    /\ cmp.verdict = "manual_review"
    /\ BothFullNames
    /\ BothSimilar
    /\ cmp.fn_ta # cmp.fn_sheet
    /\ cmp.ln_ta # cmp.ln_sheet

\* C11: no step of an import deletes a People or Contacts row, and an
\* existing People row changes in first_name, last_name and referral_count
\* only, the latter by increments.
C11_PeopleAndContactsGrow ==
    [][run.pc = "import" =>
        /\ DOMAIN People \subseteq DOMAIN People'
        /\ Contacts \subseteq Contacts'
        /\ \A id \in DOMAIN People :
              /\ People'[id].school = People[id].school
              /\ People'[id].referral_count \in
                    {People[id].referral_count, People[id].referral_count + 1}
    ]_vars

\* C11 happens: an import has renamed an existing person to the longer
\* lower-cased name of a row and has incremented a referral_count
C11_RenamedAndReferred ==
    /\ last.n > 0
    /\ \E id \in DOMAIN People : People[id].referral_count > 0
    /\ \E id \in DOMAIN People : /\ People[id].first_name # <<>>
                                 /\ People[id].first_name = Lower(People[id].first_name)
    /\ Contacts # {}


(***************************************************************************)
(* What the scripts do when a database operation fails                     *)
(***************************************************************************)
\* Most database operations one run gets to make before its commit
MaxFailOps == 3

FailScripts == {"raw_csv_to_sql", "02_migrate_contacts_to_people",
                "03_migrate_mailinglist_to_people",
                "04_migrate_allmailing_to_people", "sync_subscribers_to_mailing",
                "reset_referral_counts", "rollback_event_19"}

\* 02 lines 91-164, 03 lines 215-427, 04 lines 211-452: the body of the
\* record loop sits in a try whose handler prints the error, adds one to
\* stats['errors'] and lets the loop go on; the other scripts have no
\* handler inside their loop
HasRecordHandler(script) ==
    script \in {"02_migrate_contacts_to_people", "03_migrate_mailinglist_to_people",
                "04_migrate_allmailing_to_people"}

\* The handlers an exception meets on its way out of the script:
\*   raw_csv_to_sql import_csv 939-946: rollback, print, raise; main
\*       1105-1109: print, sys.exit(1)
\*   02 main 244-253, 03 main, 04 main 538-547, sync main 152-161: print,
\*       rollback, return 1 (the script ends with exit(main()))
\*   reset_referral_counts 70-77: rollback, print, raise; main 93-96: print,
\*       and the process ends normally
\*   rollback_event_19 rollback_event 113-120: rollback, print, raise; main
\*       231-233: print, sys.exit(1)
OuterHandlerNoRollback(script) ==
    [rolled_back |-> FALSE, printed |-> TRUE,
     reraised |-> script \in {"raw_csv_to_sql", "reset_referral_counts",
                              "rollback_event_19"},
     exit |-> IF script = "reset_referral_counts" THEN 0 ELSE 1]

OuterHandler(script) ==
    [rolled_back |-> TRUE, printed |-> TRUE,
     reraised |-> script \in {"raw_csv_to_sql", "reset_referral_counts",
                              "rollback_event_19"},
     exit |-> IF script = "reset_referral_counts" THEN 0 ELSE 1]

FailRun(script, total) ==
    [pc |-> "loop", script |-> script, total |-> total, todo |-> total,
     errors |-> 0, aborted |-> FALSE, outer |-> FALSE, rolled_back |-> FALSE,
     printed |-> FALSE, reraised |-> FALSE, commit_called |-> FALSE, exit |-> 0]

InitFail ==
    /\ People = <<>>
    /\ peopleSeq = 0
    /\ Contacts = {}
    /\ Events = <<>>
    /\ InviteTokens = {}
    /\ tokenSeq = 0
    /\ Attendance = {}
    /\ MailingList = EmptyBag
    /\ AllMailing = EmptyBag
    /\ Subscribers = {}
    /\ subSeq = 0
    /\ run \in {FailRun(script, total) : script \in FailScripts, total \in 0..MaxFailOps}
    /\ last = NoRow
    /\ cmp = NoCmp

\* An exception leaves the loop or the commit: the outer handlers run and
\* the process ends
FailOut ==
    [run EXCEPT !.pc = "done", !.outer = TRUE,
                !.rolled_back = OuterHandler(run.script).rolled_back,
                !.printed = OuterHandler(run.script).printed,
                !.reraised = OuterHandler(run.script).reraised,
                !.exit = OuterHandler(run.script).exit]

\* One database operation of the loop.  PostgreSQL refuses every statement
\* of a transaction after one of its statements failed, until a rollback.
FailRecord(fails) ==
    /\ run.pc = "loop"
    /\ run.todo > 0
    /\ run.aborted => fails
    /\ run' = IF ~fails THEN [run EXCEPT !.todo = @ - 1]
              ELSE IF HasRecordHandler(run.script)
              THEN [run EXCEPT !.todo = @ - 1, !.errors = @ + 1,
                               !.printed = TRUE, !.aborted = TRUE]
              ELSE FailOut
    /\ UNCHANGED <<db, last, cmp>>

\* conn.commit() after the loop, then return 0 / the end of main
FailCommit(fails) ==
    /\ run.pc = "loop"
    /\ run.todo = 0
    /\ run' = IF fails THEN FailOut
              ELSE [run EXCEPT !.pc = "done", !.commit_called = TRUE, !.exit = 0]
    /\ UNCHANGED <<db, last, cmp>>

NextFail ==
    \/ \E fails \in BOOLEAN : FailRecord(fails)
    \/ \E fails \in BOOLEAN : FailCommit(fails)

SpecFail == InitFail /\ [][NextFail]_vars

CONNECTION_REFRESH_INTERVAL == 50

\* Longest CSV file of this specification
MaxConnRows == 101

\* import_csv line 654 and 704: the state at the head of the row loop of a
\* CSV file of n rows.  Rows are numbered 1..n in file order; pending is
\* the rows written on the current connection and not yet committed,
\* committed the rows whose writes are committed, seen the rows processed
ConnRun(n) ==
    [pc |-> "rows", n |-> n, processed_count |-> 0, conn |-> 1, pending |-> {},
     committed |-> {}, seen |-> <<>>]

\* line 921, the progress message, taken for the refresh
RefreshDueEveryTen(processed_count) == processed_count % 10 = 0

\* line 917
RefreshDue(processed_count) == processed_count % CONNECTION_REFRESH_INTERVAL = 0

\* ensure_connection(conn, force_refresh=True), lines 55-65: commit and close
\* inside try/except: pass, then a new connection; an error of
\* get_db_connection leaves import_csv through its handler
ensure_connection(st, commit_ok, connect_ok) ==
    LET saved == IF commit_ok
                 THEN [st EXCEPT !.committed = @ \cup st.pending, !.pending = {}]
                 ELSE [st EXCEPT !.pending = {}]
    IN  IF connect_ok THEN [saved EXCEPT !.conn = @ + 1]
        ELSE [saved EXCEPT !.pc = "failed"]

InitConn ==
    /\ People = <<>>
    /\ peopleSeq = 0
    /\ Contacts = {}
    /\ Events = <<>>
    /\ InviteTokens = {}
    /\ tokenSeq = 0
    /\ Attendance = {}
    /\ MailingList = EmptyBag
    /\ AllMailing = EmptyBag
    /\ Subscribers = {}
    /\ subSeq = 0
    /\ run \in {ConnRun(n) : n \in 0..MaxConnRows}
    /\ last = NoRow
    /\ cmp = NoCmp

\* lines 709-922: one row.  Each group of writes of the row is followed by
\* conn.commit() (lines 768, 796, 821, 847 and 911), then the row is counted
\* and the connection replaced when due
ConnRow(commit_ok, connect_ok) ==
    /\ run.pc = "rows"
    /\ run.processed_count < run.n
    /\ LET i == run.processed_count + 1
           counted == [run EXCEPT !.committed = @ \cup run.pending \cup {i},
                                  !.pending = {},
                                  !.seen = Append(@, i),
                                  !.processed_count = @ + 1]
       IN  run' = IF RefreshDue(counted.processed_count)
                  THEN ensure_connection(counted, commit_ok, connect_ok)
                  ELSE counted
    /\ UNCHANGED <<db, last, cmp>>

\* lines 939-946: a database operation of the row fails; rollback, print,
\* raise, close
ConnRowFails ==
    /\ run.pc = "rows"
    /\ run.processed_count < run.n
    /\ run' = [run EXCEPT !.pc = "failed", !.pending = {}]
    /\ UNCHANGED <<db, last, cmp>>

\* lines 924-926: the final commit
ConnDone ==
    /\ run.pc = "rows"
    /\ run.processed_count = run.n
    /\ run' = [run EXCEPT !.pc = "done", !.committed = @ \cup run.pending,
                          !.pending = {}]
    /\ UNCHANGED <<db, last, cmp>>

NextConn ==
    \/ \E commit_ok, connect_ok \in BOOLEAN : ConnRow(commit_ok, connect_ok)
    \/ ConnRowFails
    \/ ConnDone

SpecConn == InitConn /\ [][NextConn]_vars

(***************************************************************************)
(* Properties of the connection refresh (specification SpecConn)           *)
(***************************************************************************)
\* C13: the connection is replaced exactly when a row brings processed_count
\* to a multiple of 50 (and the new connection opens); at that moment nothing
\* written stays uncommitted; committed rows stay committed; the rows are
\* processed once each in file order, the row after a refresh being the next
\* one; a run that ends normally has processed and committed every row.
C13_RefreshKeepsWork ==
    [][/\ run'.conn # run.conn <=>
            /\ run'.processed_count = run.processed_count + 1
            /\ run'.processed_count % CONNECTION_REFRESH_INTERVAL = 0
            /\ run'.pc # "failed"
       /\ run'.conn # run.conn =>
            /\ run'.conn = run.conn + 1
            /\ run'.pending = {}
            /\ run.pending \subseteq run'.committed
       /\ run.committed \subseteq run'.committed
       /\ run'.seen = [i \in 1..run'.processed_count |-> i]
       /\ run'.pc = "done" => /\ run'.processed_count = run'.n
                              /\ run'.committed = 1..run'.n
    ]_vars

\* a file of more than 100 rows went through with two refreshes
C13_TwoRefreshes ==
    /\ run.pc = "done"
    /\ run.n > 2 * CONNECTION_REFRESH_INTERVAL
    /\ run.conn = 3

(***************************************************************************)
(* refresh/02, 03, 04: Contacts, MailingList and AllMailing into People    *)
(***************************************************************************)
\* In this part a People row is [first_name, last_name, school, school_email,
\* personal_email, preferred_email, phone_number]; gender, class_year,
\* is_jewish (filled like school when missing) and the two event counts are
\* left out.

\* Python truth of a text value: neither None nor ''
Truthy(x) == x # NA /\ x # <<>>

\* 02 lines 32-43 (the same function in 03): the text before the first '.',
\* stripped
clean_phone_number(phone) ==
    IF phone = NA THEN NA
    ELSE IF HasAtom(phone, ".")
    THEN Strip(SubSeq(phone, 1, (CHOOSE i \in DOMAIN phone :
                                    phone[i] = "." /\ \A j \in 1..(i - 1) : phone[j] # ".") - 1))
    ELSE Strip(phone)

\* COALESCE(school_email, personal_email)
CoalesceEmail(p) == IF p.school_email # NA THEN p.school_email ELSE p.personal_email

\* 02 lines 62-79: the rows of Contacts JOIN People in the order
\* ORDER BY c.person_id, c.contact_type leaves open
ContactOrders(P, C) ==
    LET joined == {c \in C : c.person_id \in DOMAIN P}
        key(c) == <<c.person_id,
                    CASE c.contact_type = "personal email" -> 1
                      [] c.contact_type = "phone" -> 2
                      [] OTHER -> 3>>
    IN  {ord \in Orders(joined) :
            \A i, j \in DOMAIN ord :
                i < j => \/ key(ord[i])[1] < key(ord[j])[1]
                         \/ /\ key(ord[i])[1] = key(ord[j])[1]
                            /\ key(ord[i])[2] <= key(ord[j])[2]}

\* 02 lines 85-160: one contact.  existing_* are the columns the SELECT of
\* line 63 returned (snap), new_value is written to the current row
MigrateContact(P, snap, c) ==
    LET id == c.person_id
        existing == snap[id]
        new_value == Lower(c.contact_value)
        phone == clean_phone_number(c.contact_value)
    IN  IF c.contact_type = "school email"
        THEN IF Truthy(existing.school_email) /\ Lower(existing.school_email) = new_value
             THEN P ELSE [P EXCEPT ![id].school_email = new_value]
        ELSE IF c.contact_type = "personal email"
        THEN IF Truthy(existing.personal_email)
                /\ Lower(existing.personal_email) = new_value
             THEN P ELSE [P EXCEPT ![id].personal_email = new_value]
        ELSE IF Truthy(clean_phone_number(existing.phone_number))
                /\ clean_phone_number(existing.phone_number) = phone
             THEN P ELSE [P EXCEPT ![id].phone_number = phone]

\* 02 lines 169-174
UpdatePreferredDistinct(P) ==
    [id \in DOMAIN P |->
        IF /\ P[id].school_email # NA \/ P[id].personal_email # NA
           /\ P[id].preferred_email # CoalesceEmail(P[id])
        THEN [P[id] EXCEPT !.preferred_email = CoalesceEmail(P[id])]
        ELSE P[id]]

\* 02 migrate_contacts_to_people: the loop over the contacts in order ord,
\* then the preferred_email update
RECURSIVE MigrateContactsLoop(_, _, _)
MigrateContactsLoop(P, snap, ord) ==
    IF ord = <<>> THEN P
    ELSE MigrateContactsLoop(MigrateContact(P, snap, Head(ord)), snap, Tail(ord))

migrate_contacts_to_people(P, ord) == UpdatePreferredDistinct(MigrateContactsLoop(P, P, ord))

\* 03 lines 47-74 (and 04 lines 36-63): the operator's answer at an
\* e-mail conflict prompt
Decisions == {"keep_current", "use_new", "skip"}

\* EmailField with answer 3 taken as answer 1
EmailFieldSkipAsKeep(existing, raw, decision) ==
    IF ~Truthy(raw) THEN [value |-> existing, prompted |-> FALSE, skip |-> FALSE]
    ELSE IF Truthy(existing) /\ Lower(existing) = Lower(raw)
    THEN [value |-> existing, prompted |-> FALSE, skip |-> FALSE]
    ELSE IF Truthy(existing)
    THEN [value |-> IF decision = "use_new" THEN Lower(raw) ELSE existing,
          prompted |-> TRUE, skip |-> FALSE]
    ELSE [value |-> Lower(raw), prompted |-> FALSE, skip |-> FALSE]

\* 03 lines 262-291 (and 296-324, 358-385; 04 lines 253-307, 343-397): one
\* e-mail column.  value is the value the record leaves in the column,
\* prompted whether the operator was asked, skip whether they chose 3
EmailField(existing, raw, decision) ==
    IF ~Truthy(raw) THEN [value |-> existing, prompted |-> FALSE, skip |-> FALSE]
    ELSE IF Truthy(existing) /\ Lower(existing) = Lower(raw)
    THEN [value |-> existing, prompted |-> FALSE, skip |-> FALSE]
    ELSE IF Truthy(existing)
    THEN [value |-> IF decision = "use_new" THEN Lower(raw) ELSE existing,
          prompted |-> TRUE, skip |-> decision = "skip"]
    ELSE [value |-> Lower(raw), prompted |-> FALSE, skip |-> FALSE]

\* 03 lines 83-128 find_person_match: the ids fetchone() may return (the
\* SELECTs have no ORDER BY), {NoPerson} for None
find_person_match(P, ml) ==
    LET by_school == {id \in DOMAIN P : /\ P[id].school_email # NA
                                        /\ Lower(P[id].school_email) = Lower(ml.school_email)}
        by_personal == {id \in DOMAIN P : /\ P[id].personal_email # NA
                                          /\ Lower(P[id].personal_email) = Lower(ml.personal_email)}
        by_name == {id \in DOMAIN P : /\ P[id].first_name # NA /\ P[id].last_name # NA
                                      /\ Lower(P[id].first_name) = Lower(ml.first_name)
                                      /\ Lower(P[id].last_name) = Lower(ml.last_name)}
    IN  IF Truthy(ml.school_email) /\ by_school # {} THEN by_school
        ELSE IF Truthy(ml.personal_email) /\ by_personal # {} THEN by_personal
        ELSE IF Truthy(ml.first_name) /\ Truthy(ml.last_name) /\ by_name # {} THEN by_name
        ELSE {NoPerson}

\* 03 lines 215-423: one MailingList record, matched to person_id (NoPerson:
\* a new People row with the next id).  The result is the People table, the
\* id sequence, and whether the record ended at a "skip" answer
MailingRecord(P, seq, ml, person_id, d_school, d_personal, d_preferred) ==
    IF person_id # NoPerson
    THEN LET existing == P[person_id]
             school == IF ~Truthy(existing.school) /\ Truthy(ml.school)
                       THEN Lower(ml.school) ELSE existing.school
             f_school == EmailField(existing.school_email, ml.school_email, d_school)
             f_personal == EmailField(existing.personal_email, ml.personal_email,
                                      d_personal)
             phone == IF /\ Truthy(ml.phone_number)
                         /\ ~Truthy(clean_phone_number(existing.phone_number))
                      THEN clean_phone_number(ml.phone_number)
                      ELSE existing.phone_number
             f_preferred == EmailField(existing.preferred_email, ml.preferred_email,
                                       d_preferred)
             skip_person == f_school.skip \/ f_personal.skip \/ f_preferred.skip
             \* the operator answered 3 at a prompt that was shown
             chose_skip ==
                \/ f_school.prompted /\ d_school = "skip"
                \/ ~f_school.skip /\ f_personal.prompted /\ d_personal = "skip"
                \/ /\ ~f_school.skip /\ ~f_personal.skip
                   /\ f_preferred.prompted /\ d_preferred = "skip"
         IN  [P |-> IF skip_person THEN P
                    ELSE [P EXCEPT ![person_id] =
                            [existing EXCEPT !.school = school,
                                             !.school_email = f_school.value,
                                             !.personal_email = f_personal.value,
                                             !.phone_number = phone,
                                             !.preferred_email = f_preferred.value]],
              seq |-> seq, skipped |-> chose_skip, pid |-> person_id]
    ELSE [P |-> [id \in DOMAIN P \cup {seq + 1} |->
                    IF id \in DOMAIN P THEN P[id]
                    ELSE [first_name |-> ml.first_name, last_name |-> ml.last_name,
                          school |-> IF Truthy(ml.school) THEN Lower(ml.school) ELSE NA,
                          school_email |-> IF Truthy(ml.school_email)
                                           THEN Lower(ml.school_email) ELSE NA,
                          personal_email |-> IF Truthy(ml.personal_email)
                                             THEN Lower(ml.personal_email) ELSE NA,
                          preferred_email |-> IF Truthy(ml.preferred_email)
                                              THEN Lower(ml.preferred_email) ELSE NA,
                          phone_number |-> ml.phone_number]],
          seq |-> seq + 1, skipped |-> FALSE, pid |-> seq + 1]

\* 04 lines 114-131: the domains is_school_email knows
SchoolDomains ==
    {"@harvard.edu", "@college.harvard.edu", "@mit.edu", "@bu.edu",
     "@northeastern.edu", "@tufts.edu", "@wellesley.edu", "@brandeis.edu",
     "@emerson.edu", "@suffolk.edu", "@berklee.edu", "@simmons.edu", "@hbs.edu",
     "@hms.harvard.edu", "@hsph.harvard.edu", "@gse.harvard.edu",
     "@hls.harvard.edu", "@gsd.harvard.edu", "@hks.harvard.edu",
     "@divinity.harvard.edu"}

is_school_email(email) == Truthy(email) /\ HasAnyAtom(Lower(email), SchoolDomains)

\* 04 lines 67-111 detect_school_from_email.  An address holds one domain
\* atom, so the graduate-school test inside the Harvard branch never hits
detect_school_04(email) ==
    IF ~Truthy(email) THEN NA
    ELSE IF HasAnyAtom(Lower(email), HarvardDomains) THEN <<"harvard">>
    ELSE IF HasAtom(Lower(email), "@mit.edu") THEN <<"mit">>
    ELSE IF HasAnyAtom(Lower(email),
                       {"@bu.edu", "@northeastern.edu", "@tufts.edu", "@wellesley.edu",
                        "@brandeis.edu", "@emerson.edu", "@suffolk.edu", "@berklee.edu",
                        "@simmons.edu"}) THEN <<"other">>
    ELSE NA

\* 04 lines 134-162 and 213, 318: find_person_by_email, then
\* find_person_by_name; the ids fetchone() may return, with the branch
find_person_04(P, am) ==
    LET by_email == {id \in DOMAIN P :
                        \/ /\ P[id].school_email # NA
                           /\ Lower(P[id].school_email) = Lower(am.contact_value)
                        \/ /\ P[id].personal_email # NA
                           /\ Lower(P[id].personal_email) = Lower(am.contact_value)}
        by_name == {id \in DOMAIN P : /\ P[id].first_name # NA /\ P[id].last_name # NA
                                      /\ Lower(P[id].first_name) = Lower(am.first_name)
                                      /\ Lower(P[id].last_name) = Lower(am.last_name)}
    IN  IF by_email # {} THEN {[id |-> id, by |-> "email"] : id \in by_email}
        ELSE IF Truthy(am.first_name) /\ Truthy(am.last_name) /\ by_name # {}
        THEN {[id |-> id, by |-> "name"] : id \in by_name}
        ELSE {[id |-> NoPerson, by |-> "none"]}

\* 04 lines 208-448: one AllMailing record, matched as m says
AllMailingRecord(P, seq, am, m, decision) ==
    LET new_value == Lower(am.contact_value)
        detected_school == IF Truthy(am.school) THEN am.school
                           ELSE detect_school_04(am.contact_value)
    IN  IF m.by = "none"
        THEN [P |-> [id \in DOMAIN P \cup {seq + 1} |->
                        IF id \in DOMAIN P THEN P[id]
                        ELSE [first_name |-> IF Truthy(am.first_name) THEN am.first_name
                                             ELSE <<"Unknown">>,
                              last_name |-> IF Truthy(am.last_name) THEN am.last_name
                                            ELSE <<>>,
                              school |-> IF Truthy(detected_school)
                                         THEN Lower(detected_school) ELSE NA,
                              school_email |-> IF is_school_email(am.contact_value)
                                               THEN new_value ELSE NA,
                              personal_email |-> IF is_school_email(am.contact_value)
                                                 THEN NA ELSE new_value,
                              preferred_email |-> new_value,
                              phone_number |-> NA]],
              seq |-> seq + 1, skipped |-> FALSE, pid |-> seq + 1]
        ELSE
        LET existing == P[m.id]
            named == IF /\ m.by = "email"
                        /\ ~Truthy(existing.first_name) \/ ~Truthy(existing.last_name)
                        /\ Truthy(am.first_name) /\ Truthy(am.last_name)
                     THEN [existing EXCEPT !.first_name = am.first_name,
                                           !.last_name = am.last_name]
                     ELSE existing
            school == IF Truthy(existing.school) THEN existing.school
                      ELSE IF m.by = "email"
                      THEN (IF Truthy(am.school) THEN Lower(am.school) ELSE existing.school)
                      ELSE (IF Truthy(detected_school) THEN Lower(detected_school)
                            ELSE existing.school)
            f == IF is_school_email(am.contact_value)
                 THEN EmailField(existing.school_email, am.contact_value, decision)
                 ELSE EmailField(existing.personal_email, am.contact_value, decision)
        IN  [P |-> IF f.skip THEN P
                   ELSE [P EXCEPT ![m.id] =
                           IF is_school_email(am.contact_value)
                           THEN [named EXCEPT !.school = school, !.school_email = f.value]
                           ELSE [named EXCEPT !.school = school,
                                              !.personal_email = f.value]],
             seq |-> seq, skipped |-> f.prompted /\ decision = "skip", pid |-> m.id]

\* 04 lines 457-462
UpdatePreferredNull(P) ==
    [id \in DOMAIN P |->
        IF /\ P[id].preferred_email = NA
           /\ P[id].school_email # NA \/ P[id].personal_email # NA
        THEN [P[id] EXCEPT !.preferred_email = CoalesceEmail(P[id])]
        ELSE P[id]]

\* 05 lines 59-94 verify_contacts_migration: the orphans, the e-mail contacts
\* the owner's People column does not hold
verify_contacts_migration(P, C) ==
    {c \in C : /\ c.person_id \in DOMAIN P
               /\ \/ /\ c.contact_type = "school email"
                     /\ \/ P[c.person_id].school_email = NA
                        \/ Lower(P[c.person_id].school_email) # Lower(c.contact_value)
                  \/ /\ c.contact_type = "personal email"
                     /\ \/ P[c.person_id].personal_email = NA
                        \/ Lower(P[c.person_id].personal_email) # Lower(c.contact_value)}

\* Number of runs of 02, 03 and 04 together
MaxMigrations == 3

MigPerson(first_name, last_name, school) ==
    [first_name |-> first_name, last_name |-> last_name, school |-> school,
     school_email |-> NA, personal_email |-> NA, preferred_email |-> NA,
     phone_number |-> NA]

\* The tables the import left: one or two people ...
MigPeople == {<<MigPerson(<<"A", "l">>, <<"B", "o">>, NA)>>,
              <<MigPerson(<<"A", "l">>, <<"B", "o">>, NA),
                MigPerson(<<"B", "e", "a">>, <<>>, <<"mit">>)>>}

\* ... and their contacts: none, two school e-mails of person 1, one e-mail
\* of each kind and a phone number, or e-mails of both people
MigContacts ==
    {{},
     {Contact(1, "school email", <<"a", "@mit.edu">>),
      Contact(1, "school email", <<"b", "@mit.edu">>)},
     {Contact(1, "school email", <<"a", "@mit.edu">>),
      Contact(1, "personal email", <<"a", "@x.com">>),
      Contact(1, "phone", <<"5", ".", "0">>)},
     {Contact(1, "school email", <<"b", "@mit.edu">>),
      Contact(1, "personal email", <<"a", "@x.com">>),
      Contact(2, "personal email", <<"b", "@x.com">>)}}

MigIdle(runs) ==
    [pc |-> "idle", script |-> "", dry_run |-> FALSE, todo |-> EmptyBag,
     before |-> <<>>, runs |-> runs]

\* The tables a run may write
Tables == <<People, Contacts, Events, InviteTokens, Attendance, MailingList,
            AllMailing, Subscribers>>

\* last (history): the scripts committed so far; the run that ended last, with
\* the tables as they were when it started; the outcome of the last record
MigNone == [done |-> <<>>, ran |-> "", dry_run |-> FALSE, before |-> <<>>,
            skipped |-> FALSE, pid |-> NoPerson]

Ran(script, dry_run, before) ==
    [done |-> IF dry_run \/ script = "sync" THEN last.done ELSE Append(last.done, script),
     ran |-> script, dry_run |-> dry_run, before |-> before,
     skipped |-> FALSE, pid |-> NoPerson]

\* What main keeps of the transaction (02 lines 233-239, 03 main, 04 lines
\* 527-533, sync lines 141-147): nothing after conn.rollback() under
\* --dry-run, everything after conn.commit()
EndOfRunCommitting(dry_run, before, after) == after

EndOfRun(dry_run, before, after) == IF dry_run THEN before ELSE after

InitMigrate ==
    /\ People \in MigPeople
    /\ peopleSeq = Len(People)
    /\ Contacts \in {C \in MigContacts : \A c \in C : c.person_id \in DOMAIN People}
    /\ Events = <<>>
    /\ InviteTokens = {}
    /\ tokenSeq = 0
    /\ Attendance = {}
    /\ MailingList = NewMailingList(People, Contacts, Attendance)
    /\ AllMailing = NewAllMailing(People, Contacts, Attendance, EmptyBag)
    /\ Subscribers \in {{}, {[id |-> 1, email |-> <<"s", "@mit.edu">>]}}
    /\ subSeq = Cardinality(Subscribers)
    /\ run = MigIdle(0)
    /\ last = MigNone
    /\ cmp = NoCmp

\* 02 main lines 214-242: migrate_contacts_to_people, then rollback under
\* --dry-run, commit otherwise
Migrate02(dry_run, ord) ==
    /\ run.pc = "idle"
    /\ run.runs < MaxMigrations
    /\ ord \in ContactOrders(People, Contacts)
    /\ People' = EndOfRun(dry_run, People, migrate_contacts_to_people(People, ord))
    /\ run' = MigIdle(run.runs + 1)
    /\ last' = Ran("02", dry_run, Tables)
    /\ UNCHANGED <<peopleSeq, Contacts, Events, InviteTokens, tokenSeq, Attendance,
                   MailingList, AllMailing, Subscribers, subSeq, cmp>>

\* 03 lines 164-187 and 04 lines 184-201: the SELECT of the source table
MigrateStart(script, dry_run) ==
    /\ run.pc = "idle"
    /\ run.runs < MaxMigrations
    /\ run' = [pc |-> "records", script |-> script, dry_run |-> dry_run,
               todo |-> IF script = "03" THEN MailingList ELSE AllMailing,
               before |-> Tables, runs |-> run.runs + 1]
    /\ last' = [last EXCEPT !.skipped = FALSE, !.pid = NoPerson]
    /\ UNCHANGED <<db, cmp>>

\* 03 lines 189-427: the next MailingList record (the tables here keep no
\* id, so ORDER BY id is any order)
Migrate03Record(ml, person_id, d_school, d_personal, d_preferred) ==
    /\ run.pc = "records"
    /\ run.script = "03"
    /\ ml \in BagToSet(run.todo)
    /\ person_id \in find_person_match(People, ml)
    /\ LET r == MailingRecord(People, peopleSeq, ml, person_id,
                              d_school, d_personal, d_preferred)
       IN  /\ People' = r.P
           /\ peopleSeq' = r.seq
           /\ last' = [last EXCEPT !.skipped = r.skipped, !.pid = r.pid]
    /\ run' = [run EXCEPT !.todo = @ (-) SetToBag({ml})]
    /\ UNCHANGED <<Contacts, Events, InviteTokens, tokenSeq, Attendance, MailingList,
                   AllMailing, Subscribers, subSeq, cmp>>

\* 04 lines 206-452: the next AllMailing record
Migrate04Record(am, decision) ==
    /\ run.pc = "records"
    /\ run.script = "04"
    /\ am \in BagToSet(run.todo)
    /\ \E m \in find_person_04(People, am) :
         LET r == AllMailingRecord(People, peopleSeq, am, m, decision)
         IN  /\ People' = r.P
             /\ peopleSeq' = r.seq
             /\ last' = [last EXCEPT !.skipped = r.skipped, !.pid = r.pid]
    /\ run' = [run EXCEPT !.todo = @ (-) SetToBag({am})]
    /\ UNCHANGED <<Contacts, Events, InviteTokens, tokenSeq, Attendance, MailingList,
                   AllMailing, Subscribers, subSeq, cmp>>

\* The loop is over: 04 lines 454-464 set the missing preferred_email; then
\* main rolls back or commits.  A rollback does not take back the ids the
\* People sequence handed out.
MigrateEnd ==
    /\ run.pc = "records"
    /\ run.todo = EmptyBag
    /\ People' = EndOfRun(run.dry_run, run.before[1],
                          IF run.script = "04" THEN UpdatePreferredNull(People)
                          ELSE People)
    /\ last' = Ran(run.script, run.dry_run, run.before)
    /\ run' = MigIdle(run.runs)
    /\ UNCHANGED <<peopleSeq, Contacts, Events, InviteTokens, tokenSeq, Attendance,
                   MailingList, AllMailing, Subscribers, subSeq, cmp>>

\* sync_subscribers_to_mailing.py main lines 116-150
MigrateSync(dry_run) ==
    /\ run.pc = "idle"
    /\ Subscribers # {}
    /\ AllMailing' = EndOfRun(dry_run, AllMailing, sync_subscribers_to_mailing.all)
    /\ Subscribers' = EndOfRun(dry_run, Subscribers, sync_subscribers_to_mailing.subs)
    /\ last' = Ran("sync", dry_run, Tables)
    /\ UNCHANGED <<People, peopleSeq, Contacts, Events, InviteTokens, tokenSeq,
                   Attendance, MailingList, subSeq, run, cmp>>

NextMigrate ==
    \/ \E dry_run \in BOOLEAN, ord \in ContactOrders(People, Contacts) :
            Migrate02(dry_run, ord)
    \/ \E script \in {"03", "04"}, dry_run \in BOOLEAN : MigrateStart(script, dry_run)
    \/ \E ml \in BagToSet(run.todo), person_id \in DOMAIN People \cup {NoPerson},
          d_school, d_personal, d_preferred \in Decisions :
            Migrate03Record(ml, person_id, d_school, d_personal, d_preferred)
    \/ \E am \in BagToSet(run.todo), decision \in Decisions :
            Migrate04Record(am, decision)
    \/ MigrateEnd
    \/ \E dry_run \in BOOLEAN : MigrateSync(dry_run)

SpecMigrate == InitMigrate /\ [][NextMigrate]_vars

C17_SecondRunChangesNothing ==
    (/\ run.pc = "idle"
     /\ last.ran = "02" /\ ~last.dry_run
     /\ Len(last.done) >= 2
     /\ last.done[Len(last.done) - 1] = "02")
    => People = last.before[1]

\* C18: after a committed run of 02 verify_contacts_migration finds no
\* orphan (no run of this specification has an error).
C18_NoOrphanAfter02 ==
    (run.pc = "idle" /\ last.ran = "02" /\ ~last.dry_run)
    => verify_contacts_migration(People, Contacts) = {}

\* C19: after 02, 03 and 04 were committed in this order, every People row
\* with an e-mail has preferred_email = COALESCE(school_email,
\* personal_email).
C19_PreferredAfterMigrations ==
    (run.pc = "idle" /\ last.done = <<"02", "03", "04">>)
    => \A id \in DOMAIN People :
          (People[id].school_email # NA \/ People[id].personal_email # NA)
          => People[id].preferred_email = CoalesceEmail(People[id])

\* C20: a record of 03 or 04 at which the operator answered "3. Skip this
\* person entirely" leaves the People table as it was.
C20_SkipChangesNoColumn ==
    [][(run.pc = "records" /\ run'.pc = "records" /\ last'.skipped)
       => People' = People]_vars

\* the operator skipped a record of 04 matched by name to a person whose
\* school was still missing
C20_SkippedWithQueuedUpdate ==
    /\ run.pc = "records"
    /\ run.script = "04"
    /\ last.skipped
    /\ ~Truthy(People[last.pid].school)

(***************************************************************************)
(* backups/rollback_event_19.py                                            *)
(***************************************************************************)
\* line 43
EVENT_ID == 19

\* Number of people in the database of this specification
MaxRollbackPeople == 2

\* The operator's answer at "Are you sure you want to delete this event?"
Confirmations == {<<"y", "e", "s">>, <<"Y", "E", "S">>, <<"y">>, <<"n", "o">>}

\* The statement of rollback_event that raises, if any
FailPoints == {"none", "attendance", "people", "tokens", "event", "commit"}

\* rollback_event with a commit after each DELETE
rollback_event_commit_each(t, delete_people_ids, confirm, fail_at) ==
    LET s1 == [t EXCEPT !.Attendance = {a \in @ : a.event_id # EVENT_ID}]
        s2 == IF delete_people_ids # {}
              THEN [s1 EXCEPT !.Contacts = {c \in @ : c.person_id \notin delete_people_ids},
                              !.People = [id \in DOMAIN @ \ delete_people_ids |-> @[id]]]
              ELSE s1
        s3 == [s2 EXCEPT !.InviteTokens = {k \in @ : k.event_id # EVENT_ID}]
        s4 == [s3 EXCEPT !.Events = [e \in DOMAIN @ \ {EVENT_ID} |-> @[e]]]
    IN  IF Lower(confirm) # <<"y", "e", "s">> THEN t
        ELSE IF fail_at = "attendance" THEN t
        ELSE IF fail_at = "people" /\ delete_people_ids # {} THEN s1
        ELSE IF fail_at = "tokens" THEN s2
        ELSE IF fail_at = "event" THEN s3
        ELSE s4

\* rollback_event lines 49-120 on the tables t: the tables the database holds
\* when the function has ended.  The DELETEs run in one transaction; an
\* exception at any of them or at the commit of line 110 reaches
\* conn.rollback() of line 114
rollback_event(t, delete_people_ids, confirm, fail_at) ==
    LET s1 == [t EXCEPT !.Attendance = {a \in @ : a.event_id # EVENT_ID}]
        s2 == IF delete_people_ids # {}
              THEN [s1 EXCEPT !.Contacts = {c \in @ : c.person_id \notin delete_people_ids},
                              !.People = [id \in DOMAIN @ \ delete_people_ids |-> @[id]]]
              ELSE s1
        s3 == [s2 EXCEPT !.InviteTokens = {k \in @ : k.event_id # EVENT_ID}]
        s4 == [s3 EXCEPT !.Events = [e \in DOMAIN @ \ {EVENT_ID} |-> @[e]]]
    IN  IF Lower(confirm) # <<"y", "e", "s">> THEN t
        ELSE IF fail_at = "people" /\ delete_people_ids = {} THEN s4
        ELSE IF fail_at # "none" THEN t
        ELSE s4

\* The databases of this specification: up to MaxRollbackPeople people with
\* one contact each, event 19 and another event or neither with one invite
\* token each, and any attendance of these people at these events
RollbackPeople ==
    {[id \in 1..n |-> [first_name |-> <<"A", "l">>, last_name |-> <<"B", "o">>,
                       school |-> NA, referral_count |-> 0]] : n \in 0..MaxRollbackPeople}

InitRollback ==
    /\ People \in RollbackPeople
    /\ peopleSeq = Len(People)
    /\ Contacts = {Contact(id, "phone", <<"5">>) : id \in DOMAIN People}
    /\ Events \in {[e \in E |-> "mixer"] : E \in SUBSET {EVENT_ID, EVENT_ID + 1}}
    /\ InviteTokens = {[id |-> e, event_id |-> e, category |-> "mailing list",
                                 value |-> <<"default">>] : e \in DOMAIN Events}
    /\ tokenSeq = EVENT_ID + 1
    /\ Attendance \in SUBSET {[person_id |-> id, event_id |-> e, rsvp |-> TRUE,
                               approved |-> TRUE, checked_in |-> TRUE,
                               invite_token_id |-> e] :
                                    id \in DOMAIN People, e \in DOMAIN Events}
    /\ MailingList = EmptyBag
    /\ AllMailing = EmptyBag
    /\ Subscribers = {}
    /\ subSeq = 0
    /\ run = Idle
    /\ last = [ran |-> "", ids |-> {}, confirm |-> <<>>, fail_at |-> "none",
               before |-> <<>>]
    /\ cmp = NoCmp

\* main lines 215-224: rollback_event(delete_people_ids)
RollbackEvent(delete_people_ids, confirm, fail_at) ==
    /\ run.pc = "idle"
    /\ LET t == rollback_event([Attendance |-> Attendance, Contacts |-> Contacts,
                                People |-> People, InviteTokens |-> InviteTokens,
                                Events |-> Events],
                               delete_people_ids, confirm, fail_at)
       IN  /\ Attendance' = t.Attendance
           /\ Contacts' = t.Contacts
           /\ People' = t.People
           /\ InviteTokens' = t.InviteTokens
           /\ Events' = t.Events
    /\ last' = [ran |-> "rollback_event", ids |-> delete_people_ids,
                confirm |-> confirm, fail_at |-> fail_at, before |-> Tables]
    /\ UNCHANGED <<peopleSeq, tokenSeq, MailingList, AllMailing, Subscribers, subSeq,
                   run, cmp>>

NextRollback ==
    \E delete_people_ids \in SUBSET (1..(MaxRollbackPeople + 1)),
       confirm \in Confirmations, fail_at \in FailPoints :
        RollbackEvent(delete_people_ids, confirm, fail_at)

SpecRollback == InitRollback /\ [][NextRollback]_vars

(***************************************************************************)
(* Properties of rollback_event (specification SpecRollback)               *)
(***************************************************************************)
\* Nothing of the event (and of the listed people) is left
RollbackAllGone ==
    /\ \A a \in Attendance : a.event_id # EVENT_ID
    /\ \A k \in InviteTokens : k.event_id # EVENT_ID
    /\ EVENT_ID \notin DOMAIN Events
    /\ \A id \in last.ids : /\ id \notin DOMAIN People
                            /\ \A c \in Contacts : c.person_id # id

\* C15: when rollback_event has ended, either the event's Attendance rows,
\* the listed people's Contacts and People rows, the event's InviteTokens
\* and its Events row are all gone and nothing else was removed (the operator
\* confirmed and no statement failed), or every table is as it was.
C15_AllOrNothing ==
    last.ran = "rollback_event" =>
        IF Lower(last.confirm) = <<"y", "e", "s">>
           /\ (last.fail_at = "none" \/ (last.fail_at = "people" /\ last.ids = {}))
        THEN /\ RollbackAllGone
             /\ Attendance = {a \in last.before[5] : a.event_id # EVENT_ID}
             /\ Contacts = {c \in last.before[2] : c.person_id \notin last.ids}
             /\ DOMAIN People = DOMAIN last.before[1] \ last.ids
             /\ InviteTokens = {k \in last.before[4] : k.event_id # EVENT_ID}
             /\ DOMAIN Events = DOMAIN last.before[3] \ {EVENT_ID}
        ELSE Tables = last.before

\* the DELETE of the invite tokens failed after attendance, contacts and
\* people of the event had been deleted in the transaction
C15_FailedAfterDeletes ==
    /\ last.ran = "rollback_event"
    /\ Lower(last.confirm) = <<"y", "e", "s">>
    /\ last.fail_at = "tokens"
    /\ \E a \in Attendance : a.event_id = EVENT_ID
    /\ \E id \in last.ids : id \in DOMAIN People /\ \E c \in Contacts : c.person_id = id

(***************************************************************************)
(* sync_subscribers_to_mailing.py with several subscribers                 *)
(***************************************************************************)
\* Number of Subscribers rows
MaxSyncSubscribers == 3

SyncEmails == {<<"s", "@mit.edu">>, <<"S", "@MIT.EDU">>, <<"A", "@X.COM">>,
               <<"a", "@x.com">>}

\* AllMailing rows update_mailing_lists made before the sign-ups
SyncAllMailing ==
    {[first_name |-> <<"A", "l">>, last_name |-> <<"B", "o">>, school |-> NA,
      contact_value |-> <<"a", "@x.com">>, event_count |-> 1],
     [first_name |-> <<"A", "l">>, last_name |-> <<"C", "y">>, school |-> <<"mit">>,
      contact_value |-> <<"b", "@mit.edu">>, event_count |-> 0]}

InitSync ==
    /\ People = <<>>
    /\ peopleSeq = 0
    /\ Contacts = {}
    /\ Events = <<>>
    /\ InviteTokens = {}
    /\ tokenSeq = 0
    /\ Attendance = {}
    /\ MailingList = EmptyBag
    /\ AllMailing \in {SetToBag(S) : S \in SUBSET SyncAllMailing}
    /\ Subscribers \in {{[id |-> i, email |-> q[i]] : i \in DOMAIN q} :
                            q \in SeqsUpTo(SyncEmails, MaxSyncSubscribers)}
    /\ subSeq = Cardinality(Subscribers)
    /\ run = MigIdle(0)
    /\ last = MigNone
    /\ cmp = NoCmp

NextSync == \E dry_run \in BOOLEAN : MigrateSync(dry_run)

SpecSync == InitSync /\ [][NextSync]_vars

(***************************************************************************)
(* Properties of the subscriber sync (specification SpecSync)              *)
(***************************************************************************)
\* C16: after a committed run of the sync, Subscribers is empty; every
\* e-mail that was in it is in AllMailing case-insensitively; AllMailing kept
\* its rows; each added row is the lower-cased e-mail of a subscriber with
\* event_count 0 and empty names, was added once, and matches no row
\* AllMailing had before; the counts the function returns are: added = rows
\* added, added + skipped = deleted = number of subscribers.
C16_SyncMovesSubscribers ==
    (last.ran = "sync" /\ ~last.dry_run) =>
        LET all_before == last.before[7]
            subs_before == last.before[8]
            added == AllMailing (-) all_before
            counts == SyncLoop([all |-> all_before, subs |-> subs_before,
                                added |-> 0, skipped |-> 0, deleted |-> 0], subs_before)
        IN  /\ Subscribers = {}
            /\ \A sub \in subs_before :
                  \E r \in BagToSet(AllMailing) : Lower(r.contact_value) = Lower(sub.email)
            /\ all_before \sqsubseteq AllMailing
            /\ \A r \in BagToSet(added) :
                  /\ CopiesIn(r, added) = 1
                  /\ \E sub \in subs_before : r.contact_value = Lower(sub.email)
                  /\ r.event_count = 0
                  /\ r.first_name = <<>> /\ r.last_name = <<>>
                  /\ \A b \in BagToSet(all_before) :
                        Lower(b.contact_value) # Lower(r.contact_value)
                  /\ \A r2 \in BagToSet(added) :
                        Lower(r2.contact_value) = Lower(r.contact_value) => r2 = r
            /\ counts.added = BagCardinality(added)
            /\ counts.added + counts.skipped = counts.deleted
            /\ counts.deleted = Cardinality(subs_before)

\* three subscribers were moved: one added, one skipped as a case variant of
\* the one just added, one skipped as a case variant of an old row
C16_AddedAndSkipped ==
    /\ last.ran = "sync" /\ ~last.dry_run
    /\ Cardinality(last.before[8]) = 3
    /\ BagCardinality(AllMailing (-) last.before[7]) = 1
    /\ \E sub \in last.before[8] :
          /\ sub.email # Lower(sub.email)
          /\ \E b \in BagToSet(last.before[7]) : b.contact_value = Lower(sub.email)
    /\ \E s1, s2 \in last.before[8] :
          /\ s1.email # s2.email
          /\ Lower(s1.email) = Lower(s2.email)
          /\ \A b \in BagToSet(last.before[7]) : b.contact_value # Lower(s1.email)

(***************************************************************************)
(* update_school_fields.py, and the scripts that write People.school       *)
(***************************************************************************)
\* The values the people_school_check constraint admits
SchoolEnum == {<<"harvard">>, <<"mit">>, <<"other">>, NA}

\* LOWER(contact_value) LIKE '%<domain>'
EndsWithDomain(value, domain) ==
    value # <<>> /\ Lower(value)[Len(value)] = domain

\* lines 67-107 and 125-165: one loop of update_school_fields over the
\* e-mails found in AllMailing.  Ps holds the People tables the loop may have
\* made so far (fetchone() takes any person who has the e-mail as a contact);
\* a person whose school does not contain needle gets school = value.  The
\* writes of one loop are all the same, so the ORDER BY does not matter.
RECURSIVE SchoolFieldsLoop(_, _, _, _, _)
SchoolFieldsLoop(Ps, C, todo, needle, value) ==
    IF todo = {} THEN Ps
    ELSE LET email == CHOOSE e \in todo : TRUE
             owners(P) == {c.person_id : c \in {d \in C :
                              /\ d.person_id \in DOMAIN P
                              /\ Lower(d.contact_value) = Lower(email)}}
             updated(P, id) ==
                LET school_lower == Lower(NaToEmpty(P[id].school))
                IN  IF ~HasAtom(school_lower, needle)
                    THEN [P EXCEPT ![id].school = <<value>>]
                    ELSE P
             step(P) == IF owners(P) = {} THEN {P}
                        ELSE {updated(P, id) : id \in owners(P)}
         IN  SchoolFieldsLoop(UNION {step(P) : P \in Ps}, C, todo \ {email},
                              needle, value)

\* update_school_fields that writes the school names with capitals
update_school_fields_capitals(P, C, AM) ==
    LET values == {r.contact_value : r \in BagToSet(AM)}
        mit_emails == {v \in values : EndsWithDomain(v, "@mit.edu")}
        harvard_emails == {v \in values : EndsWithDomain(v, "@college.harvard.edu")}
    IN  SchoolFieldsLoop(SchoolFieldsLoop({P}, C, mit_emails, "mit", "MIT"),
                         C, harvard_emails, "harvard", "Harvard")

\* lines 35-210: the People tables update_school_fields may commit
update_school_fields(P, C, AM) ==
    LET values == {r.contact_value : r \in BagToSet(AM)}
        mit_emails == {v \in values : EndsWithDomain(v, "@mit.edu")}
        harvard_emails == {v \in values : EndsWithDomain(v, "@college.harvard.edu")}
    IN  SchoolFieldsLoop(SchoolFieldsLoop({P}, C, mit_emails, "mit", "mit"),
                         C, harvard_emails, "harvard", "harvard")

\* Answers to "What school do you go to?", e-mails and school e-mails of the
\* CSV rows
SchoolResponses == {NA, <<"Harvard">>, <<"Harvard", " ", "business">>, <<"BU">>}
SchoolRowEmails == {NA, <<"a", "@x.com">>, <<"b", "@MIT.EDU">>}
SchoolRowSchoolEmails == {NA, <<"c", "@college.harvard.edu">>, <<"e", "@hbs.edu">>}

\* Names of the people the import creates, by id
SchoolNames == <<<<"A", "l">>, <<"B", "e", "a">>, <<"C", "y">>, <<"J", "o">>,
                 <<"S", "y">>, <<"L", "e", "x">>>>

InitSchool ==
    /\ People = <<>>
    /\ peopleSeq = 0
    /\ Contacts = {}
    /\ Events = <<>>
    /\ InviteTokens = {}
    /\ tokenSeq = 0
    /\ Attendance = {}
    /\ MailingList = EmptyBag
    /\ AllMailing = EmptyBag
    /\ Subscribers \in {{}, {[id |-> 1, email |-> <<"s", "@MIT.EDU">>]},
                        {[id |-> 1, email |-> <<"s", "@harvard.edu">>]}}
    /\ subSeq = Cardinality(Subscribers)
    /\ run = MigIdle(0)
    /\ last = MigNone
    /\ cmp = NoCmp

\* raw_csv_to_sql.py lines 632-639 and 748-796: a CSV row that matched no
\* person; its People row gets the normalised school, its e-mails become
\* Contacts
SchoolImportRow(school_response, email, school_email) ==
    /\ run.pc = "idle"
    /\ run.runs < MaxMigrations
    /\ peopleSeq < Len(SchoolNames)
    /\ LET pid == peopleSeq + 1
           row == CsvRow(SchoolNames[pid], <<"B", "o">>, email, school_email, NA,
                         <<"Completed">>, <<"1">>, NA, NA)
       IN  /\ ContactOwners(Contacts, MatchingRow(row).email) = {}
           /\ People' = [id \in DOMAIN People \cup {pid} |->
                           IF id \in DOMAIN People THEN People[id]
                           ELSE MigPerson(CleanName(row.first_name),
                                          CleanName(row.last_name),
                                          normalize_school_with_email(
                                              school_response, email, school_email))]
           /\ peopleSeq' = pid
           /\ Contacts' = InsertContacts(Contacts, RowContacts(pid, row))
    /\ run' = MigIdle(run.runs + 1)
    /\ last' = Ran("import", FALSE, Tables)
    /\ UNCHANGED <<Events, InviteTokens, tokenSeq, Attendance, MailingList,
                   AllMailing, Subscribers, subSeq, cmp>>

\* raw_csv_to_sql.py lines 948-1049 update_mailing_lists
SchoolRefresh ==
    /\ run.pc = "idle"
    /\ run.runs < MaxMigrations
    /\ MailingList' = NewMailingList(People, Contacts, Attendance)
    /\ AllMailing' = NewAllMailing(People, Contacts, Attendance, AllMailing)
    /\ run' = MigIdle(run.runs + 1)
    /\ last' = Ran("refresh", FALSE, Tables)
    /\ UNCHANGED <<People, peopleSeq, Contacts, Events, InviteTokens, tokenSeq,
                   Attendance, Subscribers, subSeq, cmp>>

\* update_school_fields.py lines 35-222
UpdateSchoolFields ==
    /\ run.pc = "idle"
    /\ run.runs < MaxMigrations
    /\ People' \in update_school_fields(People, Contacts, AllMailing)
    /\ run' = MigIdle(run.runs + 1)
    /\ last' = Ran("update_school_fields", FALSE, Tables)
    /\ UNCHANGED <<peopleSeq, Contacts, Events, InviteTokens, tokenSeq, Attendance,
                   MailingList, AllMailing, Subscribers, subSeq, cmp>>

NextSchool ==
    \/ \E school_response \in SchoolResponses, email \in SchoolRowEmails,
          school_email \in SchoolRowSchoolEmails :
            SchoolImportRow(school_response, email, school_email)
    \/ SchoolRefresh
    \/ UpdateSchoolFields
    \/ \E dry_run \in BOOLEAN : MigrateSync(dry_run)
    \/ \E script \in {"03", "04"}, dry_run \in BOOLEAN : MigrateStart(script, dry_run)
    \/ \E ml \in BagToSet(run.todo), person_id \in DOMAIN People \cup {NoPerson},
          d_school, d_personal, d_preferred \in Decisions :
            Migrate03Record(ml, person_id, d_school, d_personal, d_preferred)
    \/ \E am \in BagToSet(run.todo), decision \in Decisions :
            Migrate04Record(am, decision)
    \/ MigrateEnd

SpecSchool == InitSchool /\ [][NextSchool]_vars

NameLen(name) == IF name = NA THEN 0 ELSE Len(name)

\* new is old, or new is at least as long as old and contains it
\* case-insensitively
SameOrLonger(old, new) ==
    \/ new = old
    \/ /\ new # NA
       /\ NameLen(new) >= NameLen(old)
       /\ Contains(Lower(NaToEmpty(old)), Lower(new))

\* C22: no step of an import shortens a stored first_name or last_name; a
\* stored name that changes is replaced by a name at least as long that
\* contains it case-insensitively.
C22_NamesOnlyLengthen ==
    [][\A id \in DOMAIN People :
          /\ id \in DOMAIN People'
          /\ SameOrLonger(People[id].first_name, People'[id].first_name)
          /\ SameOrLonger(People[id].last_name, People'[id].last_name)
          /\ NameLen(People'[id].first_name) >= NameLen(People[id].first_name)
          /\ NameLen(People'[id].last_name) >= NameLen(People[id].last_name)
    ]_vars

\* a row matched a person stored without last name and gave them the row's
\* longer, lower-cased first or last name
C22_NameLengthened ==
    /\ last.n > 0
    /\ ~last.created
    /\ last.pid \in DOMAIN People
    /\ \/ People[last.pid].last_name = <<"b", "o">>
       \/ People[last.pid].last_name = <<"c", "y">>

\* The people whose referral_count this step changes
Referred == {id \in DOMAIN People :
                People'[id].referral_count # People[id].referral_count}

\* C23: only the step of a CSV row changes a referral_count, and of at most
\* one person, by 1: the attendee of the row is checked in, the person is
\* the one the referral column resolved to or else the one the tracking link
\* resolved to, and is not the attendee.  A generic tracking code resolves to
\* nobody.  A person starts with referral_count 0.
C23_ReferralCountedOnce ==
    [][/\ DOMAIN People \subseteq DOMAIN People'
       /\ \A id \in DOMAIN People' \ DOMAIN People : People'[id].referral_count = 0
       /\ ~RowStep => Referred = {}
       /\ RowStep =>
            /\ Cardinality(Referred) <= 1
            /\ Lower(Strip(TokenOf(last'.row))) \in generic_codes
                    => last'.by_link = NoPerson
            /\ \A id \in Referred :
                  /\ People'[id].referral_count = People[id].referral_count + 1
                  /\ CheckedIn(last'.row)
                  /\ id # last'.pid
                  /\ id = (IF last'.by_column # NoPerson THEN last'.by_column
                           ELSE last'.by_link)
       /\ \A code \in generic_codes :
             match_tracking_link_to_person(People', code) = {NoPerson}
    ]_vars

\* the referral column of the last row named one person and its tracking
\* link another: the first was counted, the second was not
C23_ColumnReplacedLink ==
    /\ last.n > 0
    /\ last.by_column # NoPerson
    /\ last.by_link # NoPerson
    /\ last.by_column # last.by_link
    /\ last.by_column # last.pid
    /\ People[last.by_column].referral_count > 0

(***************************************************************************)
(* migration/remove_duplicates.py                                          *)
(***************************************************************************)
\* Number of data rows of final/contacts.csv
MaxDedupRows == 3

\* str.islower(): some cased character, and no upper-case one
IsLowerStr(s) ==
    /\ \E i \in DOMAIN s : IsLower(s[i]) \/ \E k \in DOMAIN LowerDomains : LowerDomains[k] = s[i]
    /\ \A i \in DOMAIN s : ~IsUpper(s[i]) /\ \A k \in DOMAIN UpperDomains : UpperDomains[k] # s[i]

\* lines 30-34: the key of a row of contacts.csv
normalized_key(row) ==
    IF row.contact_type \in EmailTypes
    THEN <<row.person_id, row.contact_type, Lower(row.contact_value)>>
    ELSE <<row.person_id, row.contact_type, row.contact_value>>

\* DedupLoop that never replaces a kept row
RECURSIVE DedupLoopKeepFirst(_, _)
DedupLoopKeepFirst(kept_rows, rows) ==
    IF rows = <<>> THEN kept_rows
    ELSE LET row == Head(rows)
             same == {i \in DOMAIN kept_rows :
                        normalized_key(kept_rows[i]) = normalized_key(row)}
         IN  DedupLoopKeepFirst(IF same # {} THEN kept_rows ELSE Append(kept_rows, row),
                                Tail(rows))

\* lines 25-59: the loop over the rows of the file; seen[normalized_key] is
\* the index in kept_rows of the row that has the key
RECURSIVE DedupLoop(_, _)
DedupLoop(kept_rows, rows) ==
    IF rows = <<>> THEN kept_rows
    ELSE LET row == Head(rows)
             same == {i \in DOMAIN kept_rows :
                        normalized_key(kept_rows[i]) = normalized_key(row)}
             existing_idx == CHOOSE i \in same : TRUE
             kept2 == IF same = {} THEN Append(kept_rows, row)
                      ELSE IF /\ row.contact_type \in EmailTypes
                              /\ IsLowerStr(row.contact_value)
                              /\ ~IsLowerStr(kept_rows[existing_idx].contact_value)
                      THEN [kept_rows EXCEPT ![existing_idx] = row]
                      ELSE kept_rows
         IN  DedupLoop(kept2, Tail(rows))

\* lines 8-73: the rows written back, and the count returned
remove_contacts_duplicates(rows) ==
    [kept_rows |-> DedupLoop(<<>>, rows),
     duplicate_count |-> Len(rows) - Len(DedupLoop(<<>>, rows))]

\* (person_id, contact_type, contact_value) of the rows a contacts.csv holds
DedupPool ==
    {<<1, "school email", <<"a", "@x.com">>>>,
     <<1, "school email", <<"A", "@x.com">>>>,
     <<1, "school email", <<"A", "@X.COM">>>>,
     <<2, "school email", <<"a", "@x.com">>>>,
     <<1, "phone", <<"5", "x">>>>,
     <<1, "phone", <<"5", "X">>>>}

\* The file with the rows of q, ids in file order
ContactsFile(q) ==
    [i \in DOMAIN q |-> [id |-> i, person_id |-> q[i][1], contact_type |-> q[i][2],
                         contact_value |-> q[i][3]]]

InitDedup ==
    /\ People = <<>>
    /\ peopleSeq = 0
    /\ Contacts = {}
    /\ Events = <<>>
    /\ InviteTokens = {}
    /\ tokenSeq = 0
    /\ Attendance = {}
    /\ MailingList = EmptyBag
    /\ AllMailing = EmptyBag
    /\ Subscribers = {}
    /\ subSeq = 0
    /\ run \in {[file |-> ContactsFile(q), runs |-> 0] :
                    q \in SeqsUpTo(DedupPool, MaxDedupRows)}
    /\ last = [ran |-> FALSE, before |-> <<>>, duplicate_count |-> 0]
    /\ cmp = NoCmp

\* lines 75-84: one run of remove_duplicates.py on final/contacts.csv
RemoveDuplicates ==
    /\ run.runs < 2
    /\ run' = [file |-> remove_contacts_duplicates(run.file).kept_rows,
               runs |-> run.runs + 1]
    /\ last' = [ran |-> TRUE, before |-> run.file,
                duplicate_count |-> remove_contacts_duplicates(run.file).duplicate_count]
    /\ UNCHANGED db
    /\ UNCHANGED cmp

NextDedup == RemoveDuplicates

SpecDedup == InitDedup /\ [][NextDedup]_vars

(***************************************************************************)
(* Properties of remove_duplicates.py (specification SpecDedup)            *)
(***************************************************************************)
\* The places in file of the rows that are the first with their key
RECURSIVE FirstPositions(_)
FirstPositions(file) ==
    IF file = <<>> THEN <<>>
    ELSE LET front == SubSeq(file, 1, Len(file) - 1)
             row == file[Len(file)]
         IN  IF \E i \in DOMAIN front : normalized_key(front[i]) = normalized_key(row)
             THEN FirstPositions(front)
             ELSE Append(FirstPositions(front), Len(file))

\* The rows of file that are the first with their key, in file order
FirstOccurrences(file) ==
    [j \in DOMAIN FirstPositions(file) |-> file[FirstPositions(file)[j]]]

\* The row of file kept for the key of the row at place first, the first of
\* its key: that row, unless it is an e-mail whose value is not lower-case
\* while a later row with the key is, and then the earliest such row
KeptFor(file, first) ==
    LET lower_later == {i \in DOMAIN file :
                          /\ i > first
                          /\ normalized_key(file[i]) = normalized_key(file[first])
                          /\ IsLowerStr(file[i].contact_value)}
    IN  IF /\ file[first].contact_type \in EmailTypes
           /\ ~IsLowerStr(file[first].contact_value)
           /\ lower_later # {}
        THEN file[CHOOSE i \in lower_later : \A k \in lower_later : i <= k]
        ELSE file[first]

MaxCsvRuns == 3

\* The tables in the order main imports them (lines 442-470); a table is the
\* bag of the CSV row numbers it holds
CsvTables == <<People, Contacts, Events, InviteTokens, Attendance, MailingList,
               AllMailing>>

NoTables == [k \in DOMAIN CsvTables |-> EmptyBag]

\* Number of rows of final/people.csv, final/contacts.csv, ...:
\* the files differ from site to site
CsvSizes == {[k \in DOMAIN CsvTables |-> 2],
             [k \in DOMAIN CsvTables |-> IF k = 3 THEN 0 ELSE 1],
             [k \in DOMAIN CsvTables |-> IF k > 5 THEN 0 ELSE 2]}

\* The table after all n rows of its CSV file went in once
CsvBag(n) == SetToBag(1..n)

\* import_people that imports into a table that has rows too
SkipImportNever(table) == FALSE

\* lines 113-117 (and 150-154, 182-186, 215-219, 247-251, 284-288, 335-339):
\* existing_count > 0, "Skipping import"
SkipImport(table) == BagCardinality(table) > 0

CsvIdle(sizes, runs, exit) ==
    [pc |-> "idle", sizes |-> sizes, runs |-> runs, exit |-> exit, k |-> 0, row |-> 0,
     pending |-> EmptyBag]

\* last (history): the tables after the schema step of the run, the table
\* the run failed at (0: none), the rows a rollback of this or an earlier run
\* took back, the tables this run skipped
CsvNone == [start |-> NoTables, failed_at |-> 0, lost |-> 0, skipped |-> 0]

InitCsv ==
    /\ People = EmptyBag
    /\ peopleSeq = 0
    /\ Contacts = EmptyBag
    /\ Events = EmptyBag
    /\ InviteTokens = EmptyBag
    /\ tokenSeq = 0
    /\ Attendance = EmptyBag
    /\ MailingList = EmptyBag
    /\ AllMailing = EmptyBag
    /\ Subscribers = {}
    /\ subSeq = 0
    /\ run \in {CsvIdle(sizes, 0, 0) : sizes \in CsvSizes}
    /\ last = CsvNone
    /\ cmp = NoCmp

\* tables[k] for each table, the others left alone
SetTables(tables) ==
    /\ People' = tables[1]
    /\ Contacts' = tables[2]
    /\ Events' = tables[3]
    /\ InviteTokens' = tables[4]
    /\ Attendance' = tables[5]
    /\ MailingList' = tables[6]
    /\ AllMailing' = tables[7]
    /\ UNCHANGED <<peopleSeq, tokenSeq, Subscribers, subSeq, cmp>>

\* main lines 390-439: connect, DROP TABLE under --drop-existing, run the
\* schema file, commit.  The schema file is not part of the sources: running
\* it either raises (main rolls back, the DROP too, and returns 1) or leaves
\* the rows of existing tables alone
CsvMain(drop_existing, schema_ok) ==
    /\ run.pc = "idle"
    /\ run.runs < MaxCsvRuns
    /\ IF schema_ok
       THEN /\ SetTables(IF drop_existing THEN NoTables ELSE CsvTables)
            /\ run' = [run EXCEPT !.pc = "table", !.runs = @ + 1, !.k = 1, !.row = 0,
                                  !.pending = EmptyBag]
            /\ last' = [last EXCEPT !.start = IF drop_existing THEN NoTables
                                              ELSE CsvTables,
                                    !.failed_at = 0, !.skipped = 0]
       ELSE /\ SetTables(CsvTables)
            /\ run' = CsvIdle(run.sizes, run.runs + 1, 1)
            /\ last' = [last EXCEPT !.start = CsvTables, !.failed_at = 0,
                                    !.skipped = 0]

\* lines 119-139 (and the other import_* loops): the INSERT of the next CSV
\* row, inside the transaction
CsvImportRow ==
    /\ run.pc = "table"
    /\ ~SkipImport(CsvTables[run.k])
    /\ run.row < run.sizes[run.k]
    /\ run' = [run EXCEPT !.row = @ + 1, !.pending = @ (+) SetToBag({run.row + 1})]
    /\ UNCHANGED <<db, cmp, last>>

\* lines 442-470: import_<table> returned (it skipped the table, or it
\* inserted every row of the file); conn.commit()
CsvCommitTable ==
    /\ run.pc = "table"
    /\ SkipImport(CsvTables[run.k]) \/ run.row = run.sizes[run.k]
    /\ SetTables([CsvTables EXCEPT ![run.k] = @ (+) run.pending])
    /\ run' = IF run.k < Len(CsvTables)
              THEN [run EXCEPT !.k = @ + 1, !.row = 0, !.pending = EmptyBag]
              ELSE [run EXCEPT !.pc = "sequences", !.row = 0, !.pending = EmptyBag]
    /\ last' = [last EXCEPT !.skipped = IF SkipImport(CsvTables[run.k]) THEN @ + 1
                                        ELSE @]

\* lines 508-519: an exception while a table is imported: psycopg2.Error and
\* Exception roll back; FileNotFoundError (raised by open(), before any
\* INSERT into the table) returns 1 at once, and the connection ends with the
\* process.  Either way the transaction is gone and main returns 1
CsvFail ==
    /\ run.pc = "table"
    /\ run' = CsvIdle(run.sizes, run.runs, 1)
    /\ last' = [last EXCEPT !.failed_at = run.k,
                            !.lost = IF BagCardinality(run.pending) > 0 THEN 1 ELSE @]
    /\ UNCHANGED <<db, cmp>>

\* lines 472-506: update_sequences, commit, the summary; main returns None
CsvFinish ==
    /\ run.pc = "sequences"
    /\ run' = CsvIdle(run.sizes, run.runs, 0)
    /\ UNCHANGED <<db, cmp, last>>

NextCsv ==
    \/ \E drop_existing, schema_ok \in BOOLEAN : CsvMain(drop_existing, schema_ok)
    \/ CsvImportRow
    \/ CsvCommitTable
    \/ CsvFail
    \/ CsvFinish

SpecCsv == InitCsv /\ [][NextCsv]_vars

(***************************************************************************)
(* Properties of csv_to_postgres.py (specification SpecCsv)                *)
(***************************************************************************)
\* What table j holds once the run has committed its import: the rows it had
\* if it had rows, the rows of its CSV file otherwise
Imported(j) ==
    IF BagCardinality(last.start[j]) > 0 THEN last.start[j] ELSE CsvBag(run.sizes[j])

\* The tables the run has committed so far: all of them before table k
CommittedBefore(k) ==
    /\ \A j \in DOMAIN CsvTables : j < k => CsvTables[j] = Imported(j)
    /\ \A j \in DOMAIN CsvTables : j >= k => CsvTables[j] = last.start[j]

\* C25: the tables are imported in the order People, Contacts, Events,
\* InviteTokens, Attendance, MailingList, AllMailing, each committed before
\* the next; after a run that failed at table k the tables before k hold
\* their import and table k and the later ones hold what they held; a table
\* that has rows is skipped; no table ever holds a CSV row twice.
C25_ImportRecoverable ==
    /\ run.pc = "table" => CommittedBefore(run.k)
    /\ run.pc = "sequences" => CommittedBefore(Len(CsvTables) + 1)
    /\ (run.pc = "idle" /\ last.failed_at > 0) => CommittedBefore(last.failed_at)
    /\ \A j \in DOMAIN CsvTables :
          \A r \in BagToSet(CsvTables[j]) : CopiesIn(r, CsvTables[j]) = 1

\* a run failed with rows of a table inserted and lost them; the rerun
\* skipped the tables committed before and imported the rest
C25_RerunAfterFailure ==
    /\ run.pc = "idle"
    /\ run.exit = 0
    /\ run.runs = 2
    /\ last.lost = 1
    /\ last.skipped > 0
    /\ last.skipped < Len(CsvTables)
    /\ \A j \in DOMAIN CsvTables : CsvTables[j] = CsvBag(run.sizes[j])

(***************************************************************************)
(* raw_csv_to_sql.py: an import that raises                                *)
(***************************************************************************)
\* ImportFails whose exception main swallows: the refresh runs all the same
ImportFailsThenRefresh(after_find) ==
    /\ run.pc = "import"
    /\ ~after_find
    /\ run' = [run EXCEPT !.pc = "refresh"]
    /\ UNCHANGED <<db, last, cmp>>

\* import_csv raises (lines 939-946: rollback, print, raise, close) and main
\* exits with status 1 (lines 1105-1109): before the next row, or, with
\* after_find, inside it, when find_person_id has committed the names and
\* line 768 the new person, and the Contacts INSERTs have not run
ImportFails(after_find) ==
    /\ run.pc = "import"
    /\ IF after_find
       THEN /\ run.processed_count < Len(run.csv)
            /\ LET m == MatchingRow(run.csv[run.processed_count + 1])
               IN  \E f \in UNION {find_person_id(People, Contacts, m, TRUE, choice) :
                                       choice \in Choices} :
                      /\ People' = IF f.pid = NoPerson
                                   THEN People @@ (peopleSeq + 1 :>
                                            NewPerson(run.csv[run.processed_count + 1]))
                                   ELSE AfterFind(People, m, f)
                      /\ peopleSeq' = IF f.pid = NoPerson THEN peopleSeq + 1
                                      ELSE peopleSeq
       ELSE UNCHANGED <<People, peopleSeq>>
    /\ run' = [run EXCEPT !.pc = "idle", !.csv = <<>>, !.processed_count = 0,
                          !.event_id = NoEvent, !.invite_token_map = <<>>,
                          !.exit = 1,
                          !.seen = @ \cup {run.csv[i] : i \in 1..run.processed_count}]
    /\ UNCHANGED <<Contacts, Events, InviteTokens, tokenSeq, Attendance, MailingList,
                   AllMailing, Subscribers, subSeq, last, cmp>>

\* The steps of raw_csv_to_sql.py alone
NextMain ==
    \/ \E name \in EventNames, csv \in CsvWithin(last.n) : MainNewEvent(name, csv)
    \/ \E name \in EventNames : MainNewEventExists(name)
    \/ \E event_id \in DOMAIN Events, csv \in CsvWithin(last.n) :
            MainExistingEvent(event_id, csv)
    \/ MainNoEvent
    \/ ImportRow
    \/ ImportDone
    \/ UpdateMailingLists
    \/ \E after_find \in BOOLEAN : ImportFails(after_find)

SpecMain == Init /\ [][NextMain]_vars

(***************************************************************************)
(* Properties of main of raw_csv_to_sql.py (specification SpecMain)        *)
(***************************************************************************)
\* C26: the refresh starts only when import_csv has processed every row and
\* returned; a step of main changes MailingList or AllMailing only as the
\* refresh; a run of main that ends without the refresh (no event, or the
\* import raised) leaves both tables as they were and exits with status 1.
C26_RefreshAfterImport ==
    [][run' # run =>
        /\ (run'.pc = "refresh" /\ run.pc # "refresh") =>
                (run.pc = "import" /\ run.processed_count = Len(run.csv))
        /\ (MailingList' # MailingList \/ AllMailing' # AllMailing) => RefreshStep
        /\ (run'.pc = "idle" /\ ~RefreshStep) =>
                /\ run'.exit = 1
                /\ MailingList' = MailingList
                /\ AllMailing' = AllMailing
    ]_vars

\* the second run imported a row and then raised: status 1, and the mailing
\* list of the first run, now stale, is still there
C26_FailedImportKeptLists ==
    /\ run.pc = "idle"
    /\ run.exit = 1
    /\ run.runs = 2
    /\ MailingList # EmptyBag
    /\ MailingList # NewMailingList(People, Contacts, Attendance)

(***************************************************************************)
(* backups/rollback_event_19.py: main                                      *)
(***************************************************************************)
\* Rows of the mailing tables and of their backup files
OldMailingRow ==
    [first_name |-> <<"A", "l">>, last_name |-> <<"B", "o">>, school |-> NA,
     event_attendance_count |-> 0, event_rsvp_count |-> 0, school_email |-> NA,
     personal_email |-> <<"a", "@x.com">>, preferred_email |-> <<"a", "@x.com">>,
     phone_number |-> NA]

OldAllMailingRow ==
    [first_name |-> <<"A", "l">>, last_name |-> <<"B", "o">>, school |-> NA,
     contact_value |-> <<"a", "@x.com">>, event_count |-> 0]

\* What backups/ holds: no backup files, or the newest MailingList and
\* AllMailing backup
NoBackup == [found |-> FALSE, MailingList |-> EmptyBag, AllMailing |-> EmptyBag]

Backups ==
    {NoBackup,
     [found |-> TRUE, MailingList |-> EmptyBag, AllMailing |-> EmptyBag],
     [found |-> TRUE, MailingList |-> SetToBag({OldMailingRow}),
      AllMailing |-> SetToBag({OldAllMailingRow})]}

\* lines 122-205 restore_mailing_lists on the mailing tables t: nothing
\* without backup files; otherwise TRUNCATE and refill both tables in one
\* transaction, which an exception rolls back
restore_mailing_lists(t, backup, restore_ok) ==
    IF ~backup.found \/ ~restore_ok THEN t
    ELSE [MailingList |-> backup.MailingList, AllMailing |-> backup.AllMailing]

\* rollback_event raised: the operator confirmed and a statement failed
RollbackRaised(delete_people_ids, confirm, fail_at) ==
    /\ Lower(confirm) = <<"y", "e", "s">>
    /\ fail_at # "none"
    /\ ~(fail_at = "people" /\ delete_people_ids = {})

InitRollbackMain ==
    /\ People \in RollbackPeople
    /\ peopleSeq = Len(People)
    /\ Contacts = {Contact(id, "phone", <<"5">>) : id \in DOMAIN People}
    /\ Events = [e \in {EVENT_ID, EVENT_ID + 1} |-> "mixer"]
    /\ InviteTokens = {[id |-> e, event_id |-> e, category |-> "mailing list",
                                 value |-> <<"default">>] : e \in DOMAIN Events}
    /\ tokenSeq = EVENT_ID + 1
    /\ Attendance = {[person_id |-> id, event_id |-> e, rsvp |-> TRUE,
                      approved |-> TRUE, checked_in |-> TRUE,
                      invite_token_id |-> e] :
                           id \in DOMAIN People, e \in DOMAIN Events}
    /\ \E b \in Backups : MailingList = b.MailingList /\ AllMailing = b.AllMailing
    /\ Subscribers = {}
    /\ subSeq = 0
    /\ run = Idle
    /\ last = [ran |-> "", restore_only |-> FALSE, ids |-> {}, confirm |-> <<>>,
               fail_at |-> "none", before |-> <<>>]
    /\ cmp = NoCmp

\* main lines 207-230: rollback_event unless --restore-only, then
\* restore_mailing_lists; an exception of either ends in sys.exit(1)
RollbackMain(restore_only, delete_people_ids, confirm, fail_at, backup, restore_ok) ==
    /\ run.pc = "idle"
    /\ LET t == IF restore_only
                THEN [Attendance |-> Attendance, Contacts |-> Contacts,
                      People |-> People, InviteTokens |-> InviteTokens,
                      Events |-> Events]
                ELSE rollback_event([Attendance |-> Attendance, Contacts |-> Contacts,
                                     People |-> People, InviteTokens |-> InviteTokens,
                                     Events |-> Events],
                                    delete_people_ids, confirm, fail_at)
           raised == ~restore_only /\ RollbackRaised(delete_people_ids, confirm, fail_at)
           m == IF raised
                THEN [MailingList |-> MailingList, AllMailing |-> AllMailing]
                ELSE restore_mailing_lists([MailingList |-> MailingList,
                                            AllMailing |-> AllMailing],
                                           backup, restore_ok)
       IN  /\ Attendance' = t.Attendance
           /\ Contacts' = t.Contacts
           /\ People' = t.People
           /\ InviteTokens' = t.InviteTokens
           /\ Events' = t.Events
           /\ MailingList' = m.MailingList
           /\ AllMailing' = m.AllMailing
           /\ run' = [run EXCEPT !.exit = IF raised \/ (backup.found /\ ~restore_ok)
                                          THEN 1 ELSE 0]
    /\ last' = [ran |-> "main", restore_only |-> restore_only,
                ids |-> delete_people_ids, confirm |-> confirm, fail_at |-> fail_at,
                before |-> Tables]
    /\ UNCHANGED <<peopleSeq, tokenSeq, Subscribers, subSeq, cmp>>

\* An input the run never reads is held at one value: --restore-only reads no
\* ids and asks nothing, a cancelled rollback executes no statement, a raised
\* rollback opens no backup, and only a found backup can fail to load
NextRollbackMain ==
    \E restore_only, restore_ok \in BOOLEAN,
       delete_people_ids \in SUBSET (1..MaxRollbackPeople),
       confirm \in Confirmations, fail_at \in FailPoints, backup \in Backups :
        /\ restore_only => (delete_people_ids = {} /\ confirm = <<"n", "o">>)
        /\ (restore_only \/ Lower(confirm) # <<"y", "e", "s">>) => fail_at = "none"
        /\ (~restore_only /\ RollbackRaised(delete_people_ids, confirm, fail_at))
               => backup = NoBackup
        /\ ~backup.found => restore_ok
        /\ RollbackMain(restore_only, delete_people_ids, confirm, fail_at, backup,
                        restore_ok)

SpecRollbackMain == InitRollbackMain /\ [][NextRollbackMain]_vars

(***************************************************************************)
(* Properties of main of rollback_event_19.py (specification               *)
(* SpecRollbackMain)                                                       *)
(***************************************************************************)
\* C27: after a run without --restore-only in which the operator did not
\* answer yes at the confirmation prompt, every table, MailingList and
\* AllMailing too, holds what it held before the run.
C27_CancelKeepsTables ==
    (/\ last.ran = "main"
     /\ ~last.restore_only
     /\ Lower(last.confirm) # <<"y", "e", "s">>)
        => Tables = last.before

====
